---- MODULE Spec2Model ----
(***************************************************************************)
(* Model of the terminal-kernel extension (latest variant of extension.ts):*)
(* the session cache of TerminalProvider, the session-name generator, the  *)
(* name sanitizer, the group classifier, the tmux/screen adapter (parsers, *)
(* command lines, listSessions, createSession, deleteSession), the command *)
(* handlers that create and delete sessions, and the tree (getChildren,    *)
(* groupSessions, buildGroupItems), the latter also as src/src/extension.ts*)
(* has it.                                                                 *)
(*                                                                         *)
(* Strings are sequences of one-character strings, so that slicing,        *)
(* prefix tests and per-character replacement are computed as the code     *)
(* computes them.                                                          *)
(***************************************************************************)
EXTENDS Integers, Sequences, FiniteSets, TLC

VARIABLES
    sessionsCache,    \* TerminalProvider.sessionsCache: Undefined or a list of names
    groupedCache,     \* TerminalProvider.groupedCache: Undefined or the entries of the Map
    sessionsCacheAt,  \* TerminalProvider.sessionsCacheAt (ms)
    sessionsFetch,    \* TerminalProvider.sessionsFetch: 0 (undefined) or the id of a list invocation
    now,              \* Date.now() (ms)
    backend,          \* the names of the sessions the multiplexer currently holds
    fetches,          \* every listSessions() invocation started so far, by id
    reads,            \* every getSessions() call made so far, in call order
    refreshes,        \* history: number of refresh() calls so far
    populated,        \* history: the last populate of the cache (time, list, refreshes)
    cacheFrom,        \* history: id of the invocation whose list sessionsCache holds
    knownSessions,    \* the module-level set knownSessions
    commands,         \* the startSessionWithPrefix invocations, by id
    messages,         \* the error messages shown so far (showErrorMessage)
    backendKind,      \* the configured backend (getBackend): "tmux" or "screen"
    sessionFilter,    \* the module-level sessionFilter
    children,         \* the getChildren() calls made so far, in call order
    call              \* the function call under examination in FnSpec

vars == <<sessionsCache, groupedCache, sessionsCacheAt, sessionsFetch, now, backend,
          fetches, reads, refreshes, populated, cacheFrom, knownSessions, commands,
          messages, backendKind, sessionFilter, children, call>>

\* Everything but the function call examined in FnSpec.
cacheVars == <<sessionsCache, groupedCache, sessionsCacheAt, sessionsFetch, now, backend,
               fetches, reads, refreshes, populated, cacheFrom, knownSessions, commands,
               messages, backendKind, sessionFilter, children>>

\* The state of the command handlers and of the tree.
uiVars == <<commands, messages, backendKind, sessionFilter, children>>

(***************************************************************************)
(* Program constants                                                       *)
(***************************************************************************)
SESSION_CACHE_TTL_MS == 500
SESSION_NAME_MAX == 24

Terminal == <<"t","e","r","m","i","n","a","l">>
FAVORITES_GROUP == <<"f","a","v","o","r","i","t","e","s">>
Tool == <<"t","o","o","l">>

(***************************************************************************)
(* Characters and elementary string operations                             *)
(***************************************************************************)
LowerChars == <<"a","b","c","d","e","f","g","h","i","j","k","l","m",
                "n","o","p","q","r","s","t","u","v","w","x","y","z">>
UpperChars == <<"A","B","C","D","E","F","G","H","I","J","K","L","M",
                "N","O","P","Q","R","S","T","U","V","W","X","Y","Z">>
DigitChars == <<"0","1","2","3","4","5","6","7","8","9">>

Range(s) == {s[i] : i \in 1..Len(s)}

Lower == Range(LowerChars)
Upper == Range(UpperChars)
Digits == Range(DigitChars)
Whitespace == {" ", "\t", "\n"}

\* value.slice(0, n)
Slice(s, n) == SubSeq(s, 1, IF n < Len(s) THEN n ELSE Len(s))

\* value.slice(n)
SliceFrom(s, n) == SubSeq(s, n + 1, Len(s))

\* name.startsWith(token)
StartsWith(s, token) == Len(token) <= Len(s) /\ SubSeq(s, 1, Len(token)) = token

Max(a, b) == IF a > b THEN a ELSE b

\* String.prototype.toLowerCase on one ASCII character
LowerChar(c) ==
    IF c \in Upper THEN LowerChars[CHOOSE i \in 1..26 : UpperChars[i] = c] ELSE c

ToLowerCase(s) == [i \in 1..Len(s) |-> LowerChar(s[i])]

RECURSIVE TrimStart(_)
TrimStart(s) ==
    IF s # <<>> /\ s[1] \in Whitespace THEN TrimStart(Tail(s)) ELSE s

RECURSIVE TrimEnd(_)
TrimEnd(s) ==
    IF s # <<>> /\ s[Len(s)] \in Whitespace THEN TrimEnd(SubSeq(s, 1, Len(s) - 1)) ELSE s

\* String.prototype.trim
Trim(s) == TrimEnd(TrimStart(s))

\* String(n) for a non-negative integer
RECURSIVE DecimalText(_)
DecimalText(n) ==
    IF n < 10 THEN <<DigitChars[n + 1]>>
    ELSE DecimalText(n \div 10) \o <<DigitChars[(n % 10) + 1]>>

DigitValue(c) == (CHOOSE i \in 1..10 : DigitChars[i] = c) - 1

RECURSIVE DecimalValue(_)
DecimalValue(s) ==
    IF s = <<>> THEN 0
    ELSE 10 * DecimalValue(SubSeq(s, 1, Len(s) - 1)) + DigitValue(s[Len(s)])

AllDigits(s) == \A i \in 1..Len(s) : s[i] \in Digits

(***************************************************************************)
(* Number(text): surrounding white space is dropped, the empty text is 0,  *)
(* an optionally signed run of decimal digits is its value (leading zeros  *)
(* allowed), anything else is NaN. The texts of the model contain no '.',  *)
(* exponent, radix prefix or "Infinity", the other numeric forms of        *)
(* JavaScript.                                                             *)
(***************************************************************************)
ToNumber(text) ==
    LET t == Trim(text) IN
    IF t = <<>> THEN [nan |-> FALSE, value |-> 0]
    ELSE IF AllDigits(t) THEN [nan |-> FALSE, value |-> DecimalValue(t)]
    ELSE IF t[1] = "+" /\ Len(t) > 1 /\ AllDigits(Tail(t))
         THEN [nan |-> FALSE, value |-> DecimalValue(Tail(t))]
    ELSE IF t[1] = "-" /\ Len(t) > 1 /\ AllDigits(Tail(t))
         THEN [nan |-> FALSE, value |-> 0 - DecimalValue(Tail(t))]
    ELSE [nan |-> TRUE, value |-> 0]

(***************************************************************************)
(* Name sanitizer and session-name builders                                *)
(***************************************************************************)
IsSessionChar(c) == c \in Lower \cup Upper \cup Digits \cup {"-"}

\* Variant: the character class \w- instead of a-zA-Z0-9-.
SanitizeKeepingUnderscore(value) ==
    [i \in 1..Len(value) |-> IF IsSessionChar(value[i]) \/ value[i] = "_" THEN value[i] ELSE "-"]

\* value.replace(/[^a-zA-Z0-9-]/g, '-')
sanitizeSessionName(value) ==
    [i \in 1..Len(value) |-> IF IsSessionChar(value[i]) THEN value[i] ELSE "-"]

\* sanitizeSessionName(prefix) || 'terminal'
SafePrefix(prefix) ==
    IF sanitizeSessionName(prefix) = <<>> THEN Terminal ELSE sanitizeSessionName(prefix)

buildNumberedSessionName(prefix, suffixText) ==
    LET safePrefix == SafePrefix(prefix)
        maxPrefixLen == Max(1, SESSION_NAME_MAX - Len(suffixText) - 1)
        trimmedPrefix == Slice(safePrefix, maxPrefixLen)
    IN trimmedPrefix \o <<"-">> \o suffixText

\* Variant: the branch for a prefix of SESSION_NAME_MAX - 1 or more is missing.
buildSessionNameNoLongPrefixCase(prefix, suffix) ==
    LET safePrefix == SafePrefix(prefix)
        safeSuffix == sanitizeSessionName(suffix)
        maxSuffixLen == Max(1, SESSION_NAME_MAX - Len(safePrefix) - 1)
    IN safePrefix \o <<"-">> \o Slice(safeSuffix, maxSuffixLen)

\* Variant: the long-prefix branch is taken from SESSION_NAME_MAX on.
buildSessionNameLongFromMax(prefix, suffix) ==
    LET safePrefix == SafePrefix(prefix)
        safeSuffix == sanitizeSessionName(suffix)
    IN IF Len(safePrefix) >= SESSION_NAME_MAX
       THEN Slice(safePrefix, SESSION_NAME_MAX - 2) \o <<"-">> \o Slice(safeSuffix, 1)
       ELSE LET maxSuffixLen == Max(1, SESSION_NAME_MAX - Len(safePrefix) - 1)
            IN safePrefix \o <<"-">> \o Slice(safeSuffix, maxSuffixLen)

buildSessionName(prefix, suffix) ==
    LET safePrefix == SafePrefix(prefix)
        safeSuffix == sanitizeSessionName(suffix)
    IN IF Len(safePrefix) >= SESSION_NAME_MAX - 1
       THEN Slice(safePrefix, SESSION_NAME_MAX - 2) \o <<"-">> \o Slice(safeSuffix, 1)
       ELSE LET maxSuffixLen == Max(1, SESSION_NAME_MAX - Len(safePrefix) - 1)
            IN safePrefix \o <<"-">> \o Slice(safeSuffix, maxSuffixLen)

(***************************************************************************)
(* Group classifier                                                        *)
(***************************************************************************)
IsLowerAlnum(c) == c \in Lower \cup Digits

\* trimmed.split(/\s+/)[0] for a trimmed, non-empty text
RECURSIVE FirstToken(_)
FirstToken(s) ==
    IF s = <<>> \/ s[1] \in Whitespace THEN <<>> ELSE <<s[1]>> \o FirstToken(Tail(s))

RECURSIVE StripTrailingSlashes(_)
StripTrailingSlashes(s) ==
    IF s # <<>> /\ s[Len(s)] = "/" THEN StripTrailingSlashes(SubSeq(s, 1, Len(s) - 1)) ELSE s

RECURSIVE LastComponent(_)
LastComponent(s) ==
    IF s = <<>> \/ s[Len(s)] = "/" THEN <<>>
    ELSE LastComponent(SubSeq(s, 1, Len(s) - 1)) \o <<s[Len(s)]>>

\* path.basename (POSIX)
Basename(s) == LastComponent(StripTrailingSlashes(s))

\* .replace(/[^a-z0-9]+/g, '-')
RECURSIVE CollapseNonAlnum(_)
CollapseNonAlnum(s) ==
    IF s = <<>> THEN <<>>
    ELSE IF IsLowerAlnum(s[1]) THEN <<s[1]>> \o CollapseNonAlnum(Tail(s))
    ELSE IF Len(s) > 1 /\ ~IsLowerAlnum(s[2]) THEN CollapseNonAlnum(Tail(s))
    ELSE <<"-">> \o CollapseNonAlnum(Tail(s))

\* .replace(/^-+/, '')
RECURSIVE StripLeadingHyphens(_)
StripLeadingHyphens(s) ==
    IF s # <<>> /\ s[1] = "-" THEN StripLeadingHyphens(Tail(s)) ELSE s

\* .replace(/-+$/, '')
RECURSIVE StripTrailingHyphens(_)
StripTrailingHyphens(s) ==
    IF s # <<>> /\ s[Len(s)] = "-" THEN StripTrailingHyphens(SubSeq(s, 1, Len(s) - 1)) ELSE s

getToolPrefix(command) ==
    LET trimmed == Trim(command) IN
    IF trimmed = <<>> THEN Tool
    ELSE LET firstToken == FirstToken(trimmed)
             base == Basename(firstToken)
             cleaned == StripTrailingHyphens(StripLeadingHyphens(
                            CollapseNonAlnum(ToLowerCase(base))))
         IN IF cleaned = <<>> THEN Tool ELSE cleaned

\* The add() of mergeTools applied to each value in turn.
RECURSIVE MergeInto(_, _)
MergeInto(merged, values) ==
    IF values = <<>> THEN merged
    ELSE LET trimmed == Trim(Head(values)) IN
         IF trimmed = <<>> \/ trimmed \in Range(merged)
         THEN MergeInto(merged, Tail(values))
         ELSE MergeInto(Append(merged, trimmed), Tail(values))

mergeTools(primary, secondary) == MergeInto(MergeInto(<<>>, primary), secondary)

\* getToolsConfig(): the bundled tools followed by the configured ones.
getToolsConfig(bundledTools, configTools) == mergeTools(bundledTools, configTools)

\* Variant: a tool named like the favorites key is not skipped.
RECURSIVE ToolGroupsFromKeepingFavorites(_, _)
ToolGroupsFromKeepingFavorites(groups, toolCommands) ==
    IF toolCommands = <<>> THEN groups
    ELSE LET command == Trim(Head(toolCommands))
             name == getToolPrefix(command)
         IN IF \/ command = <<>>
               \/ name = <<>>
               \/ \E i \in 1..Len(groups) : groups[i].name = name
               \/ name = Terminal
            THEN ToolGroupsFromKeepingFavorites(groups, Tail(toolCommands))
            ELSE ToolGroupsFromKeepingFavorites(
                     Append(groups, [name |-> name, command |-> command]),
                     Tail(toolCommands))

\* The forEach of getToolGroups over the trimmed, non-empty commands.
RECURSIVE ToolGroupsFrom(_, _)
ToolGroupsFrom(groups, toolCommands) ==
    IF toolCommands = <<>> THEN groups
    ELSE LET command == Trim(Head(toolCommands))
             name == getToolPrefix(command)
         IN IF \/ command = <<>>
               \/ name = <<>>
               \/ \E i \in 1..Len(groups) : groups[i].name = name
               \/ name = Terminal
               \/ name = FAVORITES_GROUP
            THEN ToolGroupsFrom(groups, Tail(toolCommands))
            ELSE ToolGroupsFrom(Append(groups, [name |-> name, command |-> command]),
                                Tail(toolCommands))

getToolGroups(bundledTools, configTools) ==
    ToolGroupsFrom(<<>>, getToolsConfig(bundledTools, configTools))

\* The forEach of getKnownGroupNames: lower-case and drop repetitions.
RECURSIVE UniqueLowered(_, _)
UniqueLowered(unique, names) ==
    IF names = <<>> THEN unique
    ELSE LET lowered == ToLowerCase(Head(names)) IN
         IF lowered \in Range(unique) THEN UniqueLowered(unique, Tail(names))
         ELSE UniqueLowered(Append(unique, lowered), Tail(names))

\* Stable insertion of x into a list ordered by non-increasing length.
RECURSIVE InsertByLength(_, _)
InsertByLength(sorted, x) ==
    IF sorted = <<>> THEN <<x>>
    ELSE IF Len(Head(sorted)) >= Len(x) THEN <<Head(sorted)>> \o InsertByLength(Tail(sorted), x)
    ELSE <<x>> \o sorted

\* unique.sort((a, b) => b.length - a.length), a stable sort
RECURSIVE SortByLengthDesc(_)
SortByLengthDesc(names) ==
    IF names = <<>> THEN <<>>
    ELSE InsertByLength(SortByLengthDesc(SubSeq(names, 1, Len(names) - 1)), names[Len(names)])

GroupNames(groups) == [i \in 1..Len(groups) |-> groups[i].name]

\* Variant: the list of known groups is left in configuration order.
getKnownGroupNamesUnsorted(bundledTools, configTools) ==
    UniqueLowered(<<>>, <<Terminal>> \o GroupNames(getToolGroups(bundledTools, configTools)))

getKnownGroupNames(bundledTools, configTools) ==
    SortByLengthDesc(UniqueLowered(<<>>,
        <<Terminal>> \o GroupNames(getToolGroups(bundledTools, configTools))))

\* The positions of the '-' at which /^(.+)-([a-z0-9-]+)$/i can split the name.
FallbackSplits(session) ==
    {i \in 2..(Len(session) - 1) :
        /\ session[i] = "-"
        /\ \A k \in 1..(i - 1) : session[k] # "\n"
        /\ \A k \in (i + 1)..Len(session) : IsSessionChar(session[k])}

\* match?.[1]?.toLowerCase(): the greedy (.+) takes the last possible split.
FallbackGroup(session) ==
    IF FallbackSplits(session) = {} THEN <<>>
    ELSE LET i == CHOOSE i \in FallbackSplits(session) :
                     \A k \in FallbackSplits(session) : k <= i
         IN ToLowerCase(SubSeq(session, 1, i - 1))

\* The for loop of getSessionGroupName: the first known group that prefixes the name.
RECURSIVE FirstKnownGroup(_, _)
FirstKnownGroup(lowered, knownGroups) ==
    IF knownGroups = <<>> THEN <<>>
    ELSE IF StartsWith(lowered, Head(knownGroups) \o <<"-">>) THEN Head(knownGroups)
    ELSE FirstKnownGroup(lowered, Tail(knownGroups))

HasKnownGroup(lowered, knownGroups) ==
    \E i \in 1..Len(knownGroups) : StartsWith(lowered, knownGroups[i] \o <<"-">>)

\* Variant: the fallback group is returned even when it is the favorites key.
getSessionGroupNameKeepingFavorites(session, knownGroups) ==
    LET lowered == ToLowerCase(session) IN
    IF HasKnownGroup(lowered, knownGroups) THEN FirstKnownGroup(lowered, knownGroups)
    ELSE LET group == FallbackGroup(session) IN
         IF group = <<>> THEN Terminal ELSE group

getSessionGroupName(session, knownGroups) ==
    LET lowered == ToLowerCase(session) IN
    IF HasKnownGroup(lowered, knownGroups) THEN FirstKnownGroup(lowered, knownGroups)
    ELSE LET group == FallbackGroup(session) IN
         IF group = FAVORITES_GROUP THEN Terminal
         ELSE IF group = <<>> THEN Terminal
         ELSE group

\* The insertion of one session into the Map of groupSessions.
RECURSIVE GroupInto(_, _, _)
GroupInto(grouped, sessions, knownGroups) ==
    IF sessions = <<>> THEN grouped
    ELSE LET key == getSessionGroupName(Head(sessions), knownGroups)
             at == {i \in 1..Len(grouped) : grouped[i].key = key}
         IN IF at # {}
            THEN GroupInto([grouped EXCEPT ![CHOOSE i \in at : TRUE].sessions =
                                               Append(@, Head(sessions))],
                           Tail(sessions), knownGroups)
            ELSE GroupInto(Append(grouped, [key |-> key, sessions |-> <<Head(sessions)>>]),
                           Tail(sessions), knownGroups)

\* groupSessions(sessions): the Map as the list of its entries, in insertion order.
groupSessions(sessions, knownGroups) == GroupInto(<<>>, sessions, knownGroups)

\* getFavoriteSessions(sessions)
getFavoriteSessions(sessions, favoriteSessions) ==
    SelectSeq(sessions, LAMBDA session : session \in favoriteSessions)

\* The characters of the model in the order of their code units.
CodeUnits ==
    <<"\t", "\n", " ", "'", "-", ".", "/">> \o DigitChars \o <<":">> \o UpperChars
        \o <<"\\", "_">> \o LowerChars

CodeUnit(ch) == CHOOSE i \in 1..Len(CodeUnits) : CodeUnits[i] = ch

\* a < b in the default order of Array.prototype.sort (by code units).
RECURSIVE SortsBefore(_, _)
SortsBefore(a, b) ==
    IF b = <<>> THEN FALSE
    ELSE IF a = <<>> THEN TRUE
    ELSE IF Head(a) # Head(b) THEN CodeUnit(Head(a)) < CodeUnit(Head(b))
    ELSE SortsBefore(Tail(a), Tail(b))

\* extra.sort() for names that are pairwise different.
RECURSIVE SortNames(_)
SortNames(names) ==
    IF names = {} THEN <<>>
    ELSE LET first == CHOOSE x \in names : \A y \in names \ {x} : SortsBefore(x, y)
         IN <<first>> \o SortNames(names \ {first})

\* addGroup of buildGroupItems; 'seen' holds the names of the items added so far.
addGroup(items, name, commandText, count) ==
    IF \E i \in 1..Len(items) : items[i].groupName = name THEN items
    ELSE Append(items, [groupName |-> name, commandText |-> commandText, count |-> count])

\* sessionsByGroup.get(name)?.length ?? 0
GroupCount(sessionsByGroup, name) ==
    LET at == {i \in 1..Len(sessionsByGroup) : sessionsByGroup[i].key = name}
    IN IF at = {} THEN 0 ELSE Len(sessionsByGroup[CHOOSE i \in at : TRUE].sessions)

RECURSIVE AddToolGroups(_, _, _)
AddToolGroups(items, groups, sessionsByGroup) ==
    IF groups = <<>> THEN items
    ELSE AddToolGroups(addGroup(items, Head(groups).name, Head(groups).command,
                                GroupCount(sessionsByGroup, Head(groups).name)),
                       Tail(groups), sessionsByGroup)

RECURSIVE AddExtraGroups(_, _, _)
AddExtraGroups(items, names, sessionsByGroup) ==
    IF names = <<>> THEN items
    ELSE AddExtraGroups(addGroup(items, Head(names), Head(names),
                                 GroupCount(sessionsByGroup, Head(names))),
                        Tail(names), sessionsByGroup)

\* buildGroupItems(sessions, sessionsByGroup): favorites, terminal, the tool
\* groups, then the other groups of the sessions in sorted order.
buildGroupItems(sessions, sessionsByGroup, toolGroups, favoriteSessions) ==
    LET favorites == getFavoriteSessions(sessions, favoriteSessions)
        first == addGroup(<<>>, FAVORITES_GROUP, <<>>, Len(favorites))
        second == addGroup(first, Terminal, <<>>, GroupCount(sessionsByGroup, Terminal))
        third == AddToolGroups(second, toolGroups, sessionsByGroup)
        seen == {third[i].groupName : i \in 1..Len(third)}
        extra == {sessionsByGroup[i].key : i \in 1..Len(sessionsByGroup)} \ seen
    IN AddExtraGroups(third, SortNames(extra), sessionsByGroup)

(***************************************************************************)
(* Multiplexer adapter: the listing parsers                                *)
(***************************************************************************)
\* Boolean(text)
NonEmpty(s) == s # <<>>

\* text.split(sep) for a one-character separator: the pieces between the
\* separators, the empty ones included.
RECURSIVE Split(_, _)
Split(s, sep) ==
    IF \A i \in 1..Len(s) : s[i] # sep THEN <<s>>
    ELSE LET i == CHOOSE i \in 1..Len(s) : s[i] = sep /\ \A j \in 1..(i - 1) : s[j] # sep
         IN <<SubSeq(s, 1, i - 1)>> \o Split(SubSeq(s, i + 1, Len(s)), sep)

\* lines.map(line => line.split(':')[0])
BeforeColon(lines) == [i \in 1..Len(lines) |-> Split(lines[i], ":")[1]]

\* Variant: the names are not filtered after the cut at ':'.
parseTmuxSessionsKeepingEmptyNames(out) ==
    IF out = <<>> THEN <<>>
    ELSE BeforeColon(SelectSeq(Split(out, "\n"), NonEmpty))

parseTmuxSessions(out) ==
    IF out = <<>> THEN <<>>
    ELSE SelectSeq(BeforeColon(SelectSeq(Split(out, "\n"), NonEmpty)), NonEmpty)

NoSocketsFound == <<"N","o"," ","S","o","c","k","e","t","s"," ","f","o","u","n","d">>

\* text.includes(phrase)
Includes(s, phrase) ==
    \E i \in 1..(Len(s) - Len(phrase) + 1) : SubSeq(s, i, i + Len(phrase) - 1) = phrase

\* Variant: the test for "No Sockets found" without the i flag.
TestNoSocketsFoundCaseSensitive(out) == Includes(out, NoSocketsFound)

\* /No Sockets found/i.test(out)
TestNoSocketsFound(out) == Includes(ToLowerCase(out), ToLowerCase(NoSocketsFound))

\* The length of the longest leading run of characters of (outside) a set.
LeadingRun(s, set) ==
    CHOOSE n \in 0..Len(s) :
        /\ \A i \in 1..n : s[i] \in set
        /\ n = Len(s) \/ s[n + 1] \notin set

LeadingRunOutside(s, set) ==
    CHOOSE n \in 0..Len(s) :
        /\ \A i \in 1..n : s[i] \notin set
        /\ n = Len(s) \/ s[n + 1] \in set

\* /^\d+\.(\S+)\s/.exec(line)?.[1]: both quantifiers are greedy and no shorter run
\* can match, so the digits and the name are the longest runs; the empty text
\* stands for undefined, which the filter drops like an empty name.
ScreenLineName(line) ==
    LET d == LeadingRun(line, Digits)
        rest == SliceFrom(line, d + 1)
        n == LeadingRunOutside(rest, Whitespace)
    IN IF d >= 1 /\ Len(line) > d /\ line[d + 1] = "." /\ n >= 1 /\ Len(rest) > n
       THEN SubSeq(rest, 1, n)
       ELSE <<>>

ScreenNames(out) ==
    LET lines == Split(out, "\n")
        names == [i \in 1..Len(lines) |-> ScreenLineName(Trim(lines[i]))]
    IN SelectSeq(names, NonEmpty)

parseScreenSessions(out) ==
    IF out = <<>> \/ TestNoSocketsFound(out) THEN <<>> ELSE ScreenNames(out)

(***************************************************************************)
(* Multiplexer adapter: the command lines, and how /bin/sh reads them      *)
(***************************************************************************)
\* value.replace(/'/g, "'\\''")
RECURSIVE ReplaceQuotes(_)
ReplaceQuotes(value) ==
    IF value = <<>> THEN <<>>
    ELSE (IF Head(value) = "'" THEN <<"'", "\\", "'", "'">> ELSE <<Head(value)>>)
             \o ReplaceQuotes(Tail(value))

\* Variant: the quotes inside the value are left as they are.
shellEscapeWithoutReplace(value) == <<"'">> \o value \o <<"'">>

shellEscape(value) == <<"'">> \o ReplaceQuotes(value) \o <<"'">>

\* getShellCommand(undefined, initialCommand) with the default shell, bash.
getShellCommand(initialCommand) ==
    IF initialCommand = <<>> THEN <<"b","a","s","h"," ","-","l">>
    ELSE <<"b","a","s","h"," ","-","l","c"," ">> \o shellEscape(initialCommand \o <<";"," ","e","x","e","c"," ","b","a","s","h"," ","-","l">>)

\* The command line createSession hands to execSync.
CreateCommandLine(kind, session, initialCommand) ==
    IF kind = "screen"
    THEN <<"s","c","r","e","e","n"," ","-","d","m","S"," ">> \o shellEscape(session) \o <<" ">> \o getShellCommand(initialCommand)
    ELSE <<"t","m","u","x"," ","n","e","w"," ","-","d"," ","-","s"," ">> \o shellEscape(session) \o <<" ">> \o getShellCommand(initialCommand)

attachSessionCommand(kind, session) ==
    IF kind = "screen"
    THEN <<"s","c","r","e","e","n"," ","-","r"," ">> \o shellEscape(session)
    ELSE <<"t","m","u","x"," ","a","t","t","a","c","h"," ","-","t"," ">> \o shellEscape(session)

\* The command line deleteSession hands to execSync.
DeleteCommandLine(kind, session) ==
    IF kind = "screen"
    THEN <<"s","c","r","e","e","n"," ","-","S"," ">> \o shellEscape(session) \o <<" ","-","X"," ","q","u","i","t">>
    ELSE <<"t","m","u","x"," ","k","i","l","l","-","s","e","s","s","i","o","n"," ","-","t"," ">> \o shellEscape(session)

\* The words /bin/sh makes of a command line (POSIX 2.2): outside quotes a blank
\* ends a word and a backslash keeps the next character; between single quotes
\* every character is kept. The command lines built above use no other syntax
\* outside single quotes.
RECURSIVE ShellScan(_, _, _, _, _, _)
ShellScan(s, i, quoted, word, open, words) ==
    IF i > Len(s) THEN (IF open THEN Append(words, word) ELSE words)
    ELSE IF quoted
         THEN IF s[i] = "'" THEN ShellScan(s, i + 1, FALSE, word, TRUE, words)
              ELSE ShellScan(s, i + 1, TRUE, Append(word, s[i]), TRUE, words)
    ELSE IF s[i] = "'" THEN ShellScan(s, i + 1, TRUE, word, TRUE, words)
    ELSE IF s[i] = "\\" /\ i < Len(s)
         THEN ShellScan(s, i + 2, FALSE, Append(word, s[i + 1]), TRUE, words)
    ELSE IF s[i] \in {" ", "\t"}
         THEN ShellScan(s, i + 1, FALSE, <<>>, FALSE,
                        IF open THEN Append(words, word) ELSE words)
    ELSE ShellScan(s, i + 1, FALSE, Append(word, s[i]), TRUE, words)

ShellWords(command) == ShellScan(command, 1, FALSE, <<>>, FALSE, <<>>)

(***************************************************************************)
(* Multiplexer adapter: listSessions and the list commands it runs         *)
(***************************************************************************)
\* The values of getBackend().
BackendKinds == {"tmux", "screen"}

\* What listSessions() finds in the end for the sessions the multiplexer holds:
\* each name once, in an order that the multiplexer fixes.
RECURSIVE Listing(_)
Listing(held) ==
    IF held = {} THEN <<>>
    ELSE LET n == CHOOSE n \in held : TRUE IN <<n>> \o Listing(held \ {n})

\* The standard output of 'tmux ls': a line "name: ..." for each session.
RECURSIVE TmuxLines(_)
TmuxLines(names) ==
    IF names = <<>> THEN <<>>
    ELSE Head(names) \o <<":"," ","1"," ","w","i","n","d","o","w","s"," ","(","c","r","e","a","t","e","d"," ","0","4",":","0","0",")","\n">> \o TmuxLines(Tail(names))

\* The output of 'screen -ls': a line "<pid>.<name>\t..." for each session
\* between a heading and a count, or the notice that there is none.
RECURSIVE ScreenLines(_, _)
ScreenLines(names, pid) ==
    IF names = <<>> THEN <<>>
    ELSE <<"\t">> \o DecimalText(pid) \o <<".">> \o Head(names) \o <<"\t","(","D","e","t","a","c","h","e","d",")","\n">>
             \o ScreenLines(Tail(names), pid + 1)

ScreenLs(names) ==
    IF names = <<>> THEN <<"N","o"," ","S","o","c","k","e","t","s"," ","f","o","u","n","d"," ","i","n"," ","/","r","u","n","/","s","c","r","e","e","n","/","S","-","u","s","e","r",".","\n">>
    ELSE <<"T","h","e","r","e"," ","a","r","e"," ","s","c","r","e","e","n","s"," ","o","n",":","\n">> \o ScreenLines(names, 1201)
             \o DecimalText(Len(names)) \o <<" ","S","o","c","k","e","t","s"," ","i","n"," ","/","r","u","n","/","s","c","r","e","e","n","/","S","-","u","s","e","r",".","\n">>

\* How a run of the list command can end: normally, with a non-zero exit
\* status, or not at all because the program is missing.
ListOutcomes == {"ok", "failed", "missing"}

\* What execFile passes to its callback for the list command. tmux prints
\* nothing on standard output when it fails; screen prints its list whatever its
\* exit status is.
ListRun(kind, held, outcome) ==
    IF outcome = "missing" THEN [error |-> TRUE, stdout |-> <<>>, stderr |-> <<>>]
    ELSE IF kind = "screen"
    THEN [error |-> outcome = "failed", stdout |-> ScreenLs(Listing(held)),
          stderr |-> <<>>]
    ELSE IF outcome = "failed"
    THEN [error |-> TRUE, stdout |-> <<>>, stderr |-> <<"n","o"," ","s","e","r","v","e","r"," ","r","u","n","n","i","n","g"," ","o","n"," ","/","t","m","p","/","t","m","u","x","-","1","0","0","0","/","d","e","f","a","u","l","t","\n">>]
    ELSE [error |-> FALSE, stdout |-> TmuxLines(Listing(held)), stderr |-> <<>>]

\* The promise of execFileResult: it is resolved, never rejected.
execFileResult(run) ==
    [stdout |-> Trim(run.stdout), stderr |-> Trim(run.stderr), error |-> run.error]

\* [result.stdout, result.stderr].filter(Boolean).join('\n').trim()
Combined(result) ==
    Trim(IF result.stdout = <<>> THEN result.stderr
         ELSE IF result.stderr = <<>> THEN result.stdout
         ELSE result.stdout \o <<"\n">> \o result.stderr)

\* Variant: an error of the list command is thrown on, as a promisified execFile
\* would do, and not caught.
listSessionsRejectingOnError(kind, run) ==
    LET result == execFileResult(run) IN
    IF result.error THEN [rejected |-> TRUE, sessions |-> <<>>]
    ELSE IF kind = "screen"
    THEN [rejected |-> FALSE, sessions |-> parseScreenSessions(Combined(result))]
    ELSE [rejected |-> FALSE, sessions |-> parseTmuxSessions(result.stdout)]

\* listSessions(): how its promise settles and with which names. Nothing in its
\* try block throws, so the promise is fulfilled.
listSessions(kind, run) ==
    LET result == execFileResult(run) IN
    IF kind = "screen"
    THEN [rejected |-> FALSE, sessions |-> parseScreenSessions(Combined(result))]
    ELSE IF result.error THEN [rejected |-> FALSE, sessions |-> <<>>]
    ELSE [rejected |-> FALSE, sessions |-> parseTmuxSessions(result.stdout)]

(***************************************************************************)
(* Multiplexer adapter: createSession, deleteSession and the cosmetic      *)
(* configuration. Each takes the sessions the multiplexer holds and how    *)
(* the commands it runs end, and gives the command lines run and whether   *)
(* it threw.                                                               *)
(***************************************************************************)
\* The option keys of configureTmuxStatus, in the order of its table.
TmuxOptions ==
    <<"mouse", "status", "status-interval", "status-justify", "status-left-length",
      "status-right-length", "status-left", "status-right">>

\* The commands of configureScreenScrollback.
ScreenScrollback == <<"defscrollback 10000", "scrollback 10000">>

\* One execSync call: the command, its option if any, its session, and whether
\* it ended with exit status 0 (execSync throws when it did not).
Exec(command, option, target, ok) ==
    [command |-> command, option |-> option, target |-> target, ok |-> ok]

\* The try/catch around each per-option command.
PerOption(session, failing) ==
    [i \in 1..Len(TmuxOptions) |->
        Exec("tmux set-option", TmuxOptions[i], session, i \notin failing)]

\* Variant: the return after the batched command is missing.
configureTmuxStatusAlwaysPerOption(session, env) ==
    <<Exec("tmux set-option batch", "", session, env.batch)>>
        \o PerOption(session, env.failing)

\* configureTmuxStatus(session): the command lines it runs. It never throws.
configureTmuxStatus(session, env) ==
    IF env.batch
    THEN <<Exec("tmux set-option batch", "", session, TRUE)>>
    ELSE <<Exec("tmux set-option batch", "", session, FALSE)>>
             \o PerOption(session, env.failing)

\* configureScreenScrollback(session): the command lines it runs. It never throws.
configureScreenScrollback(session, env) ==
    [i \in 1..Len(ScreenScrollback) |->
        Exec("screen -X", ScreenScrollback[i], session, i \notin env.failing)]

\* Variant: the name is remembered before the creation command is run.
createSessionRememberingFirst(kind, session, held, env) ==
    IF ~env.create \/ (kind = "tmux" /\ session \in held)
    THEN [threw |-> TRUE, known |-> {session}, held |-> held,
          execs |-> <<Exec(IF kind = "screen" THEN "screen -dmS" ELSE "tmux new",
                           "", session, FALSE)>>]
    ELSE [threw |-> FALSE, known |-> {session}, held |-> held \cup {session},
          execs |-> <<Exec(IF kind = "screen" THEN "screen -dmS" ELSE "tmux new",
                           "", session, TRUE)>>
                    \o (IF kind = "screen" THEN configureScreenScrollback(session, env)
                        ELSE configureTmuxStatus(session, env))]

\* createSession(session): the creation command fails when the environment makes
\* it fail, and tmux also refuses a name it already holds; execSync then throws
\* before anything else is done.
createSession(kind, session, held, env) ==
    IF ~env.create \/ (kind = "tmux" /\ session \in held)
    THEN [threw |-> TRUE, known |-> {}, held |-> held,
          execs |-> <<Exec(IF kind = "screen" THEN "screen -dmS" ELSE "tmux new",
                           "", session, FALSE)>>]
    ELSE [threw |-> FALSE, known |-> {session}, held |-> held \cup {session},
          execs |-> <<Exec(IF kind = "screen" THEN "screen -dmS" ELSE "tmux new",
                           "", session, TRUE)>>
                    \o (IF kind = "screen" THEN configureScreenScrollback(session, env)
                        ELSE configureTmuxStatus(session, env))]

\* Variant: a failure of the kill command is swallowed, as listing failures are.
deleteSessionSwallowingErrors(kind, session, held, env) ==
    LET ok == env.kill /\ session \in held IN
    [threw |-> FALSE, held |-> IF ok THEN held \ {session} ELSE held,
     execs |-> <<Exec(IF kind = "screen" THEN "screen -X quit" ELSE "tmux kill-session",
                      "", session, ok)>>]

\* deleteSession(session): the kill command fails when the environment makes it
\* fail or no such session exists; execSync then throws.
deleteSession(kind, session, held, env) ==
    LET ok == env.kill /\ session \in held IN
    [threw |-> ~ok, held |-> IF ok THEN held \ {session} ELSE held,
     execs |-> <<Exec(IF kind = "screen" THEN "screen -X quit" ELSE "tmux kill-session",
                      "", session, ok)>>]

(***************************************************************************)
(* Bounds of the cache model                                               *)
(***************************************************************************)
MaxReads == 3          \* getSessions() calls examined
MaxRefreshes == 1      \* refresh() calls examined
StartTime == 1000      \* Date.now() at activation
TimeStep == 250        \* the clock advances in steps of this many ms
MaxTime == 1500        \* the clock stops here

\* The sessions that may be created or killed outside the UI.
BackendNames == {Terminal \o <<"-","1">>}

(***************************************************************************)
(* Session cache (TerminalProvider)                                        *)
(***************************************************************************)
Undefined == [defined |-> FALSE, list |-> <<>>]
Defined(list) == [defined |-> TRUE, list |-> list]

NoPopulate == [valid |-> FALSE, at |-> 0, list |-> <<>>, refreshes |-> 0]
NoCall == [op |-> "none", done |-> TRUE]

\* The list invocations started by getSessions() that have not resolved yet.
Outstanding ==
    {f \in 1..Len(fetches) :
        fetches[f].by = "getSessions" /\ fetches[f].state # "resolved"}

CacheInit ==
    /\ sessionsCache = Undefined
    /\ groupedCache = Undefined
    /\ sessionsCacheAt = 0
    /\ sessionsFetch = 0
    /\ now = StartTime
    /\ backend \in SUBSET BackendNames
    /\ fetches = <<>>
    /\ reads = <<>>
    /\ refreshes = 0
    /\ populated = NoPopulate
    /\ cacheFrom = 0
    /\ knownSessions = {}
    /\ commands = <<>>
    /\ messages = <<>>
    /\ backendKind \in BackendKinds
    /\ sessionFilter = <<>>
    /\ children = <<>>

Init == CacheInit /\ call = NoCall

\* Variant: an empty cached list counts as no cache.
CacheHitIgnoringEmptyList ==
    /\ sessionsCache.defined
    /\ sessionsCache.list # <<>>
    /\ now - sessionsCacheAt < SESSION_CACHE_TTL_MS

\* The test of the time-to-live branch of getSessions().
CacheHit ==
    /\ sessionsCache.defined
    /\ now - sessionsCacheAt < SESSION_CACHE_TTL_MS

\* The record kept of one getSessions() call.
Read(kind, fetch, resolved, list, pending) ==
    [kind |-> kind, fetch |-> fetch, resolved |-> resolved, list |-> list,
     refreshes |-> refreshes, pending |-> pending, rejected |-> FALSE]

\* The record kept of one listSessions() invocation, as it starts: who called
\* it, and the fetch that sessionsFetch held at that moment.
Invocation(by, read, command) ==
    [by |-> by, state |-> "spawned", list |-> <<>>, refreshes |-> refreshes,
     read |-> read, command |-> command, during |-> sessionsFetch,
     outcome |-> "none", held |-> {}, rejected |-> FALSE]

\* getSessions(): the synchronous part of one call.
GetSessions ==
    /\ IF CacheHit
       THEN /\ reads' = Append(reads, Read("cache", cacheFrom, TRUE, sessionsCache.list,
                                           Outstanding))
            /\ UNCHANGED <<sessionsFetch, fetches>>
       ELSE IF sessionsFetch # 0
       THEN /\ reads' = Append(reads, Read("joined", sessionsFetch, FALSE, <<>>,
                                           Outstanding))
            /\ UNCHANGED <<sessionsFetch, fetches>>
       ELSE LET f == Len(fetches) + 1 IN
            /\ fetches' = Append(fetches, Invocation("getSessions", Len(reads) + 1, 0))
            /\ sessionsFetch' = f
            /\ reads' = Append(reads, Read("started", f, FALSE, <<>>,
                                           Outstanding \cup {f}))
    /\ UNCHANGED <<sessionsCache, groupedCache, sessionsCacheAt, now, backend,
                   refreshes, populated, cacheFrom, knownSessions, uiVars, call>>

\* refresh()
Refresh ==
    /\ refreshes < MaxRefreshes
    /\ sessionsCache' = Undefined
    /\ groupedCache' = Undefined
    /\ sessionsFetch' = 0
    /\ refreshes' = refreshes + 1
    /\ cacheFrom' = 0
    /\ UNCHANGED <<sessionsCacheAt, now, backend, fetches, reads, populated,
                   knownSessions, uiVars, call>>

\* The list command of invocation f runs against the multiplexer's sessions and
\* ends in one of the ways it can; listSessions() settles accordingly.
ListingRuns(f) ==
    /\ fetches[f].state = "spawned"
    /\ \E outcome \in ListOutcomes :
          LET settled == listSessions(backendKind, ListRun(backendKind, backend, outcome))
          IN fetches' = [fetches EXCEPT ![f].state = "listed",
                                        ![f].list = settled.sessions,
                                        ![f].rejected = settled.rejected,
                                        ![f].outcome = outcome,
                                        ![f].held = backend]
    /\ UNCHANGED <<sessionsCache, groupedCache, sessionsCacheAt, sessionsFetch, now,
                   backend, reads, refreshes, populated, cacheFrom, knownSessions,
                   uiVars, call>>

\* The getSessions() calls that await invocation f.
Awaiting(f) == {r \in 1..Len(reads) : reads[r].fetch = f /\ ~reads[r].resolved}

\* The messages getChildren shows when the getSessions() calls it awaits reject.
RECURSIVE UnableToList(_)
UnableToList(n) ==
    IF n = 0 THEN <<>>
    ELSE <<[text |-> "Unable to list terminals", session |-> <<>>, command |-> 0]>>
             \o UnableToList(n - 1)

\* The promise of invocation f settles. Fulfilled: listSessions() remembers the
\* names and returns, the .then and .finally callbacks of getSessions() run, then
\* every caller awaiting it receives its list. Rejected: only .finally runs, and
\* getChildren, which awaits every getSessions() call, shows its error message.
FetchResolves(f) ==
    /\ fetches[f].state = "listed"
    /\ fetches[f].by = "getSessions"
    /\ sessionsFetch' = 0
    /\ fetches' = [fetches EXCEPT ![f].state = "resolved"]
    /\ IF fetches[f].rejected
       THEN /\ reads' = [r \in 1..Len(reads) |->
                            IF r \in Awaiting(f)
                            THEN [reads[r] EXCEPT !.resolved = TRUE, !.rejected = TRUE]
                            ELSE reads[r]]
            /\ messages' = messages \o UnableToList(Cardinality(Awaiting(f)))
            /\ UNCHANGED <<sessionsCache, sessionsCacheAt, groupedCache, populated,
                           cacheFrom, knownSessions>>
       ELSE /\ sessionsCache' = Defined(fetches[f].list)
            /\ sessionsCacheAt' = now
            /\ groupedCache' = Undefined
            /\ reads' = [r \in 1..Len(reads) |->
                            IF r \in Awaiting(f)
                            THEN [reads[r] EXCEPT !.resolved = TRUE,
                                                  !.list = fetches[f].list]
                            ELSE reads[r]]
            /\ populated' = [valid |-> TRUE, at |-> now, list |-> fetches[f].list,
                             refreshes |-> refreshes]
            /\ cacheFrom' = f
            /\ knownSessions' = knownSessions \cup Range(fetches[f].list)
            /\ UNCHANGED messages
    /\ UNCHANGED <<now, backend, refreshes, commands, backendKind, sessionFilter,
                   children, call>>

\* Time passes.
Tick ==
    /\ now + TimeStep <= MaxTime
    /\ now' = now + TimeStep
    /\ UNCHANGED <<sessionsCache, groupedCache, sessionsCacheAt, sessionsFetch, backend,
                   fetches, reads, refreshes, populated, cacheFrom, knownSessions,
                   uiVars, call>>

\* A session is created or killed outside the provider.
BackendChanges(n) ==
    /\ backend' = IF n \in backend THEN backend \ {n} ELSE backend \cup {n}
    /\ UNCHANGED <<sessionsCache, groupedCache, sessionsCacheAt, sessionsFetch, now,
                   fetches, reads, refreshes, populated, cacheFrom, knownSessions,
                   uiVars, call>>

Next ==
    \/ Len(reads) < MaxReads /\ GetSessions
    \/ Refresh
    \/ \E f \in 1..Len(fetches) : ListingRuns(f)
    \/ \E f \in 1..Len(fetches) : FetchResolves(f)
    \/ Tick
    \/ \E n \in BackendNames : BackendChanges(n)

Spec == Init /\ [][Next]_vars

(***************************************************************************)
(* Session commands: startSessionWithPrefix, getNextSessionName,           *)
(* createSession and the delete handler, with tmux as the backend.         *)
(***************************************************************************)
MaxCommands == 2       \* command invocations examined
MaxCommandReads == 1   \* getSessions() calls examined next to the commands

\* A configured tool whose name is one character short of SESSION_NAME_MAX.
LongTool == [i \in 1..(SESSION_NAME_MAX - 1) |-> "a"]

\* The prefixes the commands pass: 'terminal' (startTerminalSession) or the
\* group name of a tool (startToolSession).
CommandPrefixes == {Terminal, getToolPrefix(LongTool)}

\* What the user may type into the suffix box.
EnteredSuffixes == {<<>>, <<"0","1">>}

\* The forEach of getNextSessionName: the numbers taken by the listed names.
UsedNumbers(safePrefix, sessions) ==
    LET token == safePrefix \o <<"-">>
        suffix(name) == ToNumber(SliceFrom(name, Len(token)))
    IN {suffix(sessions[i]).value : i \in
            {i \in 1..Len(sessions) :
                /\ StartsWith(sessions[i], token)
                /\ ~suffix(sessions[i]).nan
                /\ suffix(sessions[i]).value > 0}}

\* Variant: the number after the largest one in use.
NextNumberAfterLargest(used) ==
    IF used = {} THEN 1 ELSE (CHOOSE n \in used : \A k \in used : k <= n) + 1

\* let next = 1; while (used.has(next)) next += 1;
NextNumber(used) ==
    CHOOSE n \in 1..(Cardinality(used) + 1) :
        n \notin used /\ \A k \in 1..(n - 1) : k \in used

\* getNextSessionName(prefix), given what listSessions() returned. listSessions()
\* never rejects, so the catch branch is not reached.
getNextSessionName(prefix, sessions) ==
    LET safePrefix == SafePrefix(prefix) IN
    buildNumberedSessionName(safePrefix,
                             DecimalText(NextNumber(UsedNumbers(safePrefix, sessions))))

\* How the commands a handler runs may end: the creation or kill command, the
\* batched set-option command, and the per-option or scrollback commands that
\* fail (none, or the first and the last).
CommandEnvs ==
    {[create |-> c, kill |-> c, batch |-> b, failing |-> F] :
        c \in BOOLEAN, b \in BOOLEAN, F \in {{}, {1, Len(TmuxOptions)}}}

\* The record kept of one command: what was asked, where the handler is, and
\* once it is done what it did (history).
Command(kind, prefix, suffix, pc, session) ==
    [kind |-> kind, prefix |-> prefix, suffix |-> suffix, pc |-> pc,
     session |-> session, threw |-> FALSE, ok |-> FALSE, attempts |-> 0,
     knownBefore |-> FALSE, knownAfter |-> FALSE, cacheDefined |-> FALSE,
     listed |-> FALSE,
     alone |-> \A c \in 1..Len(commands) : commands[c].pc = "done"]

\* What a handler has done when it returns.
Done(record, session, r, knownBefore, knownAfter) ==
    [record EXCEPT !.pc = "done", !.session = session, !.threw = r.threw,
                   !.ok = r.execs[1].ok,
                   !.attempts = Cardinality({i \in 1..Len(r.execs) :
                                               r.execs[i].command = r.execs[1].command}),
                   !.knownBefore = knownBefore, !.knownAfter = knownAfter,
                   !.cacheDefined = sessionsCache.defined]

\* provider.refresh() called from a command handler.
RefreshFromCommand ==
    /\ sessionsCache' = Undefined
    /\ groupedCache' = Undefined
    /\ sessionsFetch' = 0
    /\ refreshes' = refreshes + 1
    /\ cacheFrom' = 0

\* Variant: refresh() is called after the try block, whether or not it threw.
RefreshAlways(threw) == RefreshFromCommand

\* provider.refresh() is the statement after the mutation in the try block: it
\* is skipped when the mutation threw.
RefreshUnlessThrown(threw) ==
    IF threw
    THEN UNCHANGED <<sessionsCache, groupedCache, sessionsFetch, refreshes, cacheFrom>>
    ELSE RefreshFromCommand

\* The try block of startSessionWithPrefix for command c: createSession(session)
\* and refresh(), or the error message of the catch block.
CreateAndRefresh(c, record, session, remembered) ==
    \E env \in CommandEnvs :
        LET r == createSession(backendKind, session, backend, env)
            known == knownSessions \cup remembered
            done == Done(record, session, r, session \in known,
                         session \in known \cup r.known)
        IN /\ backend' = r.held
           /\ knownSessions' = known \cup r.known
           /\ messages' = IF r.threw
                          THEN Append(messages, [text |-> "Failed to create terminal",
                                                 session |-> session, command |-> c])
                          ELSE messages
           /\ RefreshUnlessThrown(r.threw)
           /\ commands' = IF c > Len(commands) THEN Append(commands, done)
                          ELSE [commands EXCEPT ![c] = done]

\* startSessionWithPrefix(prefix) once the suffix box has been answered: with a
\* suffix the session is created at once, without one the listing is awaited.
StartSession(prefix, suffix) ==
    /\ LET cleaned == sanitizeSessionName(suffix)
           c == Len(commands) + 1
       IN IF cleaned # <<>>
          THEN /\ CreateAndRefresh(c, Command("create", prefix, suffix, "creating", <<>>),
                                   buildSessionName(prefix, cleaned), {})
               /\ UNCHANGED fetches
          ELSE /\ commands' = Append(commands,
                                     Command("create", prefix, suffix, "naming", <<>>))
               /\ fetches' = Append(fetches, Invocation("getNextSessionName", 0, c))
               /\ UNCHANGED <<backend, knownSessions, messages, sessionsCache,
                              groupedCache, sessionsFetch, refreshes, cacheFrom>>
    /\ UNCHANGED <<sessionsCacheAt, now, reads, populated, backendKind, sessionFilter,
                   children, call>>

\* The listing awaited by getNextSessionName settles: the name is computed (in
\* the catch block when the listing was rejected) and startSessionWithPrefix goes
\* on to create the session.
NameResolves(f) ==
    /\ fetches[f].state = "listed"
    /\ fetches[f].by = "getNextSessionName"
    /\ LET c == fetches[f].command
           prefix == commands[c].prefix
           sessions == fetches[f].list
           number == IF fetches[f].rejected THEN 1
                     ELSE NextNumber(UsedNumbers(SafePrefix(prefix), sessions))
           session == IF fetches[f].rejected
                      THEN buildNumberedSessionName(prefix, DecimalText(1))
                      ELSE getNextSessionName(prefix, sessions)
       IN /\ call' = [op |-> "getNextSessionName", done |-> TRUE, prefix |-> prefix,
                      sessions |-> sessions, number |-> number, result |-> session,
                      command |-> c, held |-> backend,
                      listed |-> fetches[f].outcome = "ok",
                      sequential |-> commands[c].alone /\ Len(commands) = c]
          /\ CreateAndRefresh(c, [commands[c] EXCEPT !.listed = fetches[f].outcome = "ok"],
                              session, Range(sessions))
    /\ fetches' = [fetches EXCEPT ![f].state = "resolved"]
    /\ UNCHANGED <<sessionsCacheAt, now, reads, populated, backendKind, sessionFilter,
                   children>>

\* The terminalKernel.deleteSession handler, once the user has confirmed.
DeleteSessionCommand(session) ==
    /\ \E env \in CommandEnvs :
          LET r == deleteSession(backendKind, session, backend, env)
              c == Len(commands) + 1
          IN /\ backend' = r.held
             /\ messages' = IF r.threw
                            THEN Append(messages, [text |-> "Failed to delete terminal",
                                                   session |-> session, command |-> c])
                            ELSE messages
             /\ RefreshUnlessThrown(r.threw)
             /\ commands' = Append(commands,
                                   Done(Command("delete", <<>>, <<>>, "deleting", session),
                                        session, r, session \in knownSessions,
                                        session \in knownSessions))
    /\ UNCHANGED <<sessionsCacheAt, now, fetches, reads, populated, knownSessions,
                   backendKind, sessionFilter, children, call>>

CommandNext ==
    \/ /\ Len(commands) < MaxCommands
       /\ \E prefix \in CommandPrefixes, suffix \in EnteredSuffixes :
             StartSession(prefix, suffix)
    \/ \E f \in 1..Len(fetches) : ListingRuns(f)
    \/ \E f \in 1..Len(fetches) : NameResolves(f)
    \/ /\ Len(commands) < MaxCommands
       /\ \E session \in knownSessions : DeleteSessionCommand(session)
    \/ Len(reads) < MaxCommandReads /\ GetSessions
    \/ \E f \in 1..Len(fetches) : FetchResolves(f)

CommandSpec == Init /\ [][CommandNext]_vars

(***************************************************************************)
(* One command handler at work next to the cache: a session of the default *)
(* group is created, with or without a suffix, or a session is deleted,    *)
(* while the tree reads the sessions.                                      *)
(***************************************************************************)
MaxHandlerCommands == 1   \* command invocations examined
MaxHandlerReads == 1      \* getSessions() calls examined

\* What the user may type into the suffix box of the default group: nothing,
\* digits, or a text with a space.
HandlerSuffixes == EnteredSuffixes \cup {<<"a", " ", "b">>}

HandlerNext ==
    \/ /\ Len(commands) < MaxHandlerCommands
       /\ \E suffix \in HandlerSuffixes : StartSession(Terminal, suffix)
    \/ \E f \in 1..Len(fetches) : ListingRuns(f)
    \/ \E f \in 1..Len(fetches) : NameResolves(f)
    \/ /\ Len(commands) < MaxHandlerCommands
       /\ \E session \in knownSessions : DeleteSessionCommand(session)
    \/ Len(reads) < MaxHandlerReads /\ GetSessions
    \/ \E f \in 1..Len(fetches) : FetchResolves(f)

HandlerSpec == Init /\ [][HandlerNext]_vars

(***************************************************************************)
(* The 'new session' command of the default group, always with an empty    *)
(* suffix, and the delete command, run one after another on a multiplexer  *)
(* that starts without sessions.                                           *)
(***************************************************************************)
MaxDefaultCommands == 4   \* command invocations examined

\* No handler is at work.
AllDone == \A c \in 1..Len(commands) : commands[c].pc = "done"

DefaultInit == Init /\ backend = {}

DefaultNext ==
    \/ /\ Len(commands) < MaxDefaultCommands
       /\ AllDone
       /\ StartSession(Terminal, <<>>)
    \/ \E f \in 1..Len(fetches) : ListingRuns(f)
    \/ \E f \in 1..Len(fetches) : NameResolves(f)
    \/ /\ Len(commands) < MaxDefaultCommands
       /\ AllDone
       /\ \E session \in knownSessions : DeleteSessionCommand(session)

DefaultSpec == DefaultInit /\ [][DefaultNext]_vars

(***************************************************************************)
(* The tree: getChildren() for the root element, next to refresh(), the    *)
(* filter command and sessions that come and go outside the UI. No tool is *)
(* configured. The continuation of an await runs in the microtasks of the  *)
(* step that settles the awaited promise, before any other handler.        *)
(***************************************************************************)
MaxChildren == 2       \* getChildren() calls examined
TreeTimeStep == 300    \* ms between two observations of Date.now()
TreeMaxTime == 1600    \* last value of Date.now() examined

\* What the user may enter as the filter: nothing, or a text that the
\* session names do not contain.
Filters == {<<>>, <<"X">>}

\* applySessionFilter(sessions) under the filter given
applySessionFilter(sessions, filter) ==
    LET lowered == ToLowerCase(filter) IN
    IF lowered = <<>> THEN sessions
    ELSE SelectSeq(sessions, LAMBDA session : Includes(ToLowerCase(session), lowered))

\* this.getKnownGroupNames() when no tool is configured or bundled
TreeGroups == getKnownGroupNames(<<>>, <<>>)

\* getGroupedSessions() past its first line: the Map built from the sessions
\* that getFilteredSessions() returned.
Grouped(sessions) ==
    Defined(groupSessions(applySessionFilter(sessions, sessionFilter), TreeGroups))

\* The same in src/src/extension.ts, which has no filter. With no tool
\* configured its getSessionGroupName classifies the names of BackendNames
\* as the latest variant does.
GroupedEarlier(sessions) == Defined(groupSessions(sessions, TreeGroups))

\* The record kept of one getChildren() call: where it is, the fetch it
\* awaits (0: none), whether it started that fetch, and what it saw when it
\* was called (history).
Child(pc, fetch, started, result) ==
    [pc |-> pc, fetch |-> fetch, started |-> started, result |-> result,
     at |-> now, populated |-> populated, refreshes |-> refreshes,
     hadGrouped |-> groupedCache.defined]

\* getChildren() of part_002, up to its first await that has to wait:
\* getFilteredSessions() then getGroupedSessions().
GetChildren ==
    /\ IF CacheHit
       THEN LET grouped == IF groupedCache.defined THEN groupedCache
                           ELSE Grouped(sessionsCache.list)
            IN /\ groupedCache' = grouped
               /\ children' = Append(children, Child("done", 0, FALSE, grouped))
               /\ UNCHANGED <<sessionsFetch, fetches>>
       ELSE IF sessionsFetch # 0
       THEN /\ children' = Append(children,
                                   Child("sessions", sessionsFetch, FALSE, Undefined))
            /\ UNCHANGED <<groupedCache, sessionsFetch, fetches>>
       ELSE LET f == Len(fetches) + 1 IN
            /\ fetches' = Append(fetches, Invocation("getSessions", 0, 0))
            /\ sessionsFetch' = f
            /\ children' = Append(children, Child("sessions", f, TRUE, Undefined))
            /\ UNCHANGED groupedCache
    /\ UNCHANGED <<sessionsCache, sessionsCacheAt, now, backend, reads, refreshes,
                   populated, cacheFrom, knownSessions, commands, messages,
                   backendKind, sessionFilter, call>>

\* getChildren() of src/src/extension.ts: getGroupedSessions() alone, which
\* returns groupedCache when it is set and calls getSessions() otherwise.
GetChildrenEarlier ==
    /\ IF groupedCache.defined
       THEN /\ children' = Append(children, Child("done", 0, FALSE, groupedCache))
            /\ UNCHANGED <<groupedCache, sessionsFetch, fetches>>
       ELSE IF CacheHit
       THEN /\ groupedCache' = GroupedEarlier(sessionsCache.list)
            /\ children' = Append(children,
                                   Child("done", 0, FALSE,
                                         GroupedEarlier(sessionsCache.list)))
            /\ UNCHANGED <<sessionsFetch, fetches>>
       ELSE IF sessionsFetch # 0
       THEN /\ children' = Append(children,
                                   Child("grouped", sessionsFetch, FALSE, Undefined))
            /\ UNCHANGED <<groupedCache, sessionsFetch, fetches>>
       ELSE LET f == Len(fetches) + 1 IN
            /\ fetches' = Append(fetches, Invocation("getSessions", 0, 0))
            /\ sessionsFetch' = f
            /\ children' = Append(children, Child("grouped", f, TRUE, Undefined))
            /\ UNCHANGED groupedCache
    /\ UNCHANGED <<sessionsCache, sessionsCacheAt, now, backend, reads, refreshes,
                   populated, cacheFrom, knownSessions, commands, messages,
                   backendKind, sessionFilter, call>>

\* The getChildren() calls that await invocation f.
Waiting(f) == {c \in 1..Len(children) : children[c].pc # "done" /\ children[c].fetch = f}

\* Variant: the .then callback of getSessions() leaves groupedCache as it is,
\* and getGroupedSessions() goes on returning it.
GroupedAfterFetchKeepingOld(f, grouped) ==
    IF groupedCache.defined THEN groupedCache
    ELSE IF Waiting(f) = {} THEN Undefined ELSE grouped

\* groupedCache once invocation f has resolved: the .then callback of
\* getSessions() clears it, and each getChildren() call that awaited f goes on
\* into getGroupedSessions(), whose getSessions() call finds the cache just
\* filled, and assigns the Map it built.
GroupedAfterFetch(f, grouped) ==
    IF Waiting(f) = {} THEN Undefined ELSE grouped

\* The promise of invocation f is fulfilled (listSessions() never rejects):
\* the .then and .finally callbacks of getSessions() run, then the
\* getChildren() calls awaiting it. 'grouped' is the Map they build and
\* 'remembered' the names listSessions() has added to knownSessions.
TreeFetchResolves(f, grouped, remembered) ==
    /\ fetches[f].state = "listed"
    /\ fetches[f].by = "getSessions"
    /\ ~fetches[f].rejected
    /\ sessionsFetch' = 0
    /\ fetches' = [fetches EXCEPT ![f].state = "resolved"]
    /\ sessionsCache' = Defined(fetches[f].list)
    /\ sessionsCacheAt' = now
    /\ groupedCache' = GroupedAfterFetch(f, grouped)
    /\ children' = [c \in 1..Len(children) |->
                        IF c \in Waiting(f)
                        THEN [children[c] EXCEPT !.pc = "done",
                                                 !.result = GroupedAfterFetch(f, grouped)]
                        ELSE children[c]]
    /\ populated' = [valid |-> TRUE, at |-> now, list |-> fetches[f].list,
                     refreshes |-> refreshes]
    /\ cacheFrom' = f
    /\ knownSessions' = knownSessions \cup remembered
    /\ UNCHANGED <<now, backend, reads, refreshes, commands, messages, backendKind,
                   sessionFilter, call>>

\* The terminalKernel.setFilter command once the box is answered (with an
\* empty value, terminalKernel.clearFilter): setSessionFilter then refresh().
SetFilter(value) ==
    /\ refreshes < MaxRefreshes
    /\ sessionFilter' = Trim(value)
    /\ sessionsCache' = Undefined
    /\ groupedCache' = Undefined
    /\ sessionsFetch' = 0
    /\ refreshes' = refreshes + 1
    /\ cacheFrom' = 0
    /\ UNCHANGED <<sessionsCacheAt, now, backend, fetches, reads, populated,
                   knownSessions, commands, messages, backendKind, children, call>>

\* Time passes.
TreeTick ==
    /\ now + TreeTimeStep <= TreeMaxTime
    /\ now' = now + TreeTimeStep
    /\ UNCHANGED <<sessionsCache, groupedCache, sessionsCacheAt, sessionsFetch, backend,
                   fetches, reads, refreshes, populated, cacheFrom, knownSessions,
                   uiVars, call>>

TreeNext ==
    \/ Len(children) < MaxChildren /\ GetChildren
    \/ Refresh
    \/ \E value \in Filters : SetFilter(value)
    \/ \E f \in 1..Len(fetches) : ListingRuns(f)
    \/ \E f \in 1..Len(fetches) :
          TreeFetchResolves(f, Grouped(fetches[f].list), Range(fetches[f].list))
    \/ TreeTick
    \/ \E n \in BackendNames : BackendChanges(n)

TreeSpec == Init /\ [][TreeNext]_vars

\* The TerminalProvider of src/src/extension.ts, which has no filter and whose
\* listSessions() does not record the names it lists.
EarlierTreeNext ==
    \/ Len(children) < MaxChildren /\ GetChildrenEarlier
    \/ Refresh
    \/ \E f \in 1..Len(fetches) : ListingRuns(f)
    \/ \E f \in 1..Len(fetches) :
          TreeFetchResolves(f, GroupedEarlier(fetches[f].list), {})
    \/ TreeTick
    \/ \E n \in BackendNames : BackendChanges(n)

EarlierTreeSpec == Init /\ [][EarlierTreeNext]_vars

(***************************************************************************)
(* Function calls: FnSpec draws one call with its inputs and applies the   *)
(* function to it.                                                         *)
(***************************************************************************)
MaxPad == 25           \* longest run of one repeated character in an input text
MaxWordLen == 1        \* free characters that follow the run
MaxSanitizeLen == 3    \* longest text given to sanitizeSessionName on its own
MaxNumber == 11        \* largest number given to buildNumberedSessionName
MaxTools == 2          \* configured tool commands
MaxTailLen == 2        \* free characters that end a session name to classify
MaxOutLen == 6         \* longest text given to parseTmuxSessions
MaxLineLen == 5        \* longest generated line given to parseScreenSessions

Words(alphabet, n) == UNION {[1..k -> alphabet] : k \in 0..n}

Rep(c, k) == [i \in 1..k |-> c]

\* Texts of every length up to MaxPad + MaxWordLen, with valid and invalid characters.
NameTexts ==
    {Rep(c, k) \o w : c \in {"a", "_"}, k \in 0..MaxPad, w \in Words({"b", "-", "."}, MaxWordLen)}

\* Suffixes of every length up to MaxPad + 1.
SuffixTexts == {Rep("a", k) \o w : k \in 0..MaxPad, w \in {<<>>, <<"_">>}}

SanitizeTexts == Words({"a", "Z", "7", "-", "_", " ", "'"}, MaxSanitizeLen)

Codex == <<"c","o","d","e","x">>
CodexReview == Codex \o <<"-","r","e","v","i","e","w">>

ToolCommands ==
    { Codex,
      CodexReview,
      <<" ">> \o Codex \o <<" ">>,
      <<"/","b","/","C","o","d","e","x"," ","-","v">>,
      <<"x",".","s","h">>,
      Terminal,
      FAVORITES_GROUP }

\* The bundled tools found at activation: none, or one executable.
BundledLists == { <<>>, << <<"/","t","/">> \o CodexReview >> }

SessionBases ==
    { Codex, CodexReview, Terminal, FAVORITES_GROUP, Tool,
      <<"C","o","d","e","x">>, <<"x","-","s","h">>, <<"m","y">> }

SessionTexts == {b \o t : b \in SessionBases, t \in Words({"-", "1"}, MaxTailLen)}

Lists(S, n) == UNION {[1..k -> S] : k \in 0..n}

\* Outputs of 'tmux ls': names, colons and line ends in every arrangement.
TmuxOutputs == Words({"a", ":", "\n"}, MaxOutLen)

\* Lines of 'screen -ls' in every arrangement of a digit, the dot, a letter and
\* a blank, alone or followed by a line of the usual shape.
ScreenTexts == Words({"1", ".", "a", " "}, MaxLineLen)

ScreenTails ==
    { <<>>,
      <<"\n","\t","1","2",".","w","-","1","\t","(","D","e","t","a","c","h","e","d",")","\n">>,
      <<"\n","7",".","b">> }

\* Outputs that name no socket, in several letter cases, and near misses.
ScreenNotices ==
    { <<"N","o"," ","S","o","c","k","e","t","s"," ","f","o","u","n","d"," ","i","n"," ","/","r","u","n","/","s","c","r","e","e","n",".","\n">>,
      <<"\t","3",".","a","\t","(","D","e","t","a","c","h","e","d",")","\n","n","o"," ","s","o","c","k","e","t","s"," ","F","O","U","N","D">>,
      <<"\t","3",".","a","\t","(","D","e","t","a","c","h","e","d",")","\n","N","o"," ","S","o","c","k","e","t"," ","f","o","u","n","d">>,
      <<"N","O"," ","S","O","C","K","E","T","S"," ","F","O","U","N","D">>,
      <<"2",".","a"," ","\t","3",".","b"," ","x","\n","4","."," ","x","\n"," ","5",".","c","\t","(","D",")","\n",".","a"," ","x">> }

\* The initial command of a tool session: none, or one with quotes of its own.
InitialCommands == { <<>>, <<"x"," ","'","y"," ","z","'">> }

ScreenOutputs == {l \o t : l \in ScreenTexts, t \in ScreenTails} \cup ScreenNotices

SanitizeCall(x) ==
    [op |-> "sanitizeSessionName", value |-> x, done |-> FALSE, result |-> <<>>]

BuildSessionNameCall(p, x) ==
    [op |-> "buildSessionName", prefix |-> p, suffix |-> x, done |-> FALSE, result |-> <<>>]

BuildNumberedCall(p, n) ==
    [op |-> "buildNumberedSessionName", prefix |-> p, number |-> n, done |-> FALSE,
     result |-> <<>>]

ParseTmuxCall(out) ==
    [op |-> "parseTmuxSessions", out |-> out, done |-> FALSE, names |-> <<>>]

ParseScreenCall(out) ==
    [op |-> "parseScreenSessions", out |-> out, done |-> FALSE, names |-> <<>>]

\* One session name in the three command lines that carry it.
SessionCommandsCall(kind, session, initialCommand) ==
    [op |-> "sessionCommands", kind |-> kind, session |-> session,
     initialCommand |-> initialCommand, done |-> FALSE,
     create |-> <<>>, attach |-> <<>>, delete |-> <<>>]

\* createSession(session) on a multiplexer that holds the sessions 'held', with
\* the way each command it runs ends.
CreateSessionCall(kind, held, env) ==
    [op |-> "createSession", kind |-> kind, session |-> Terminal \o <<"-", "1">>,
     held |-> held, env |-> env, done |-> FALSE, threw |-> FALSE, execs |-> <<>>,
     known |-> {}]

\* Every way the commands of createSession may end.
CreateEnvs ==
    {[create |-> c, batch |-> b, failing |-> F] :
        c \in BOOLEAN, b \in BOOLEAN, F \in SUBSET (1..Len(TmuxOptions))}

\* Session lists given to the tree: names of the default group, of a tool
\* group and of no configured group in both letter cases, and of the
\* favorites key.
TreeSessionTexts ==
    { Terminal \o <<"-","1">>,
      Codex \o <<"-","1">>,
      <<"C","o","d","e","x","-","2">>,
      <<"F","a","v","o","r","i","t","e","s","-","x">>,
      <<"m","y","-","1">>,
      <<"M","Y","-","2">> }

\* Tool commands configured when the tree is built: a tool, and the two
\* names that getToolGroups skips.
TreeToolCommands == {Codex, Terminal, FAVORITES_GROUP}

MaxSessions == 2       \* sessions listed when the tree is built

GroupItemsCall(sessions, b, t, favs) ==
    [op |-> "buildGroupItems", sessions |-> sessions, bundledTools |-> b, tools |-> t,
     favoriteSessions |-> favs, done |-> FALSE, toolGroups |-> <<>>,
     knownGroups |-> <<>>, grouped |-> <<>>, items |-> <<>>]

GroupNameCall(x, b, t) ==
    [op |-> "getSessionGroupName", session |-> x, bundledTools |-> b, tools |-> t,
     done |-> FALSE, knownGroups |-> <<>>, result |-> <<>>]

FnInit ==
    /\ sessionsCache = Undefined
    /\ groupedCache = Undefined
    /\ sessionsCacheAt = 0
    /\ sessionsFetch = 0
    /\ now = StartTime
    /\ backend = {}
    /\ fetches = <<>>
    /\ reads = <<>>
    /\ refreshes = 0
    /\ populated = NoPopulate
    /\ cacheFrom = 0
    /\ knownSessions = {}
    /\ commands = <<>>
    /\ messages = <<>>
    /\ backendKind = "tmux"
    /\ sessionFilter = <<>>
    /\ children = <<>>
    /\ \/ \E x \in SanitizeTexts : call = SanitizeCall(x)
       \/ \E p \in NameTexts, x \in SuffixTexts : call = BuildSessionNameCall(p, x)
       \/ \E p \in NameTexts, n \in 1..MaxNumber : call = BuildNumberedCall(p, n)
       \/ \E x \in SessionTexts, b \in BundledLists,
             t \in Lists(ToolCommands, MaxTools) : call = GroupNameCall(x, b, t)
       \/ \E sessions \in Lists(TreeSessionTexts, MaxSessions), b \in BundledLists,
             t \in Lists(TreeToolCommands, MaxTools) :
             \E favs \in {{}, Range(sessions)} :
                call = GroupItemsCall(sessions, b, t, favs)
       \/ \E out \in TmuxOutputs : call = ParseTmuxCall(out)
       \/ \E kind \in BackendKinds, held \in SUBSET BackendNames, env \in CreateEnvs :
             call = CreateSessionCall(kind, held, env)
       \/ \E kind \in BackendKinds, session \in SanitizeTexts, c \in InitialCommands :
             call = SessionCommandsCall(kind, session, c)
       \/ \E out \in ScreenOutputs : call = ParseScreenCall(out)

CallSanitizeSessionName ==
    /\ call.op = "sanitizeSessionName" /\ ~call.done
    /\ call' = [call EXCEPT !.done = TRUE, !.result = sanitizeSessionName(call.value)]
    /\ UNCHANGED cacheVars

CallBuildSessionName ==
    /\ call.op = "buildSessionName" /\ ~call.done
    /\ call' = [call EXCEPT !.done = TRUE,
                            !.result = buildSessionName(call.prefix, call.suffix)]
    /\ UNCHANGED cacheVars

CallBuildNumberedSessionName ==
    /\ call.op = "buildNumberedSessionName" /\ ~call.done
    /\ call' = [call EXCEPT !.done = TRUE,
                            !.result = buildNumberedSessionName(call.prefix,
                                                                DecimalText(call.number))]
    /\ UNCHANGED cacheVars

\* groupSessions: getSessionGroupName(session, this.getKnownGroupNames())
CallGetSessionGroupName ==
    /\ call.op = "getSessionGroupName" /\ ~call.done
    /\ LET knownGroups == getKnownGroupNames(call.bundledTools, call.tools) IN
       call' = [call EXCEPT !.done = TRUE,
                            !.knownGroups = knownGroups,
                            !.result = getSessionGroupName(call.session, knownGroups)]
    /\ UNCHANGED cacheVars

\* getChildren() without an element: getGroupedSessions() and buildGroupItems.
CallBuildGroupItems ==
    /\ call.op = "buildGroupItems" /\ ~call.done
    /\ LET toolGroups == getToolGroups(call.bundledTools, call.tools)
           knownGroups == getKnownGroupNames(call.bundledTools, call.tools)
           grouped == groupSessions(call.sessions, knownGroups)
       IN call' = [call EXCEPT !.done = TRUE,
                               !.toolGroups = toolGroups,
                               !.knownGroups = knownGroups,
                               !.grouped = grouped,
                               !.items = buildGroupItems(call.sessions, grouped, toolGroups,
                                                         call.favoriteSessions)]
    /\ UNCHANGED cacheVars

CallParseTmuxSessions ==
    /\ call.op = "parseTmuxSessions" /\ ~call.done
    /\ call' = [call EXCEPT !.done = TRUE, !.names = parseTmuxSessions(call.out)]
    /\ UNCHANGED cacheVars

CallParseScreenSessions ==
    /\ call.op = "parseScreenSessions" /\ ~call.done
    /\ call' = [call EXCEPT !.done = TRUE, !.names = parseScreenSessions(call.out)]
    /\ UNCHANGED cacheVars

\* execSync runs each command line through /bin/sh; attachSessionCommand is
\* sent to a terminal whose shell reads it the same way.
CallSessionCommands ==
    /\ call.op = "sessionCommands" /\ ~call.done
    /\ call' = [call EXCEPT
                   !.done = TRUE,
                   !.create = ShellWords(CreateCommandLine(call.kind, call.session,
                                                           call.initialCommand)),
                   !.attach = ShellWords(attachSessionCommand(call.kind, call.session)),
                   !.delete = ShellWords(DeleteCommandLine(call.kind, call.session))]
    /\ UNCHANGED cacheVars

CallCreateSession ==
    /\ call.op = "createSession" /\ ~call.done
    /\ LET r == createSession(call.kind, call.session, call.held, call.env) IN
       call' = [call EXCEPT !.done = TRUE, !.threw = r.threw, !.execs = r.execs,
                            !.known = r.known]
    /\ UNCHANGED cacheVars

FnNext ==
    \/ CallCreateSession
    \/ CallBuildGroupItems
    \/ CallSessionCommands
    \/ CallParseTmuxSessions
    \/ CallParseScreenSessions
    \/ CallSanitizeSessionName
    \/ CallBuildSessionName
    \/ CallBuildNumberedSessionName
    \/ CallGetSessionGroupName

FnSpec == FnInit /\ [][FnNext]_vars

(***************************************************************************)
(* Claims about the session cache, checked under Spec                      *)
(***************************************************************************)

\* C1: at any time at most one list invocation started by getSessions() is
\* outstanding (started and not yet resolved).
AtMostOneOutstandingFetch == Cardinality(Outstanding) <= 1

\* C2: when a getSessions() call started a list invocation, a later call made
\* before that invocation resolved, with no refresh() between the two calls,
\* starts no list invocation of its own.
SingleFlightWithoutRefresh ==
    \A i, j \in 1..Len(reads) :
        ( /\ i < j
          /\ reads[i].kind = "started"
          /\ reads[i].fetch \in reads[j].pending
          /\ reads[i].refreshes = reads[j].refreshes )
        => reads[j].kind # "started"

\* C3: the first getSessions() call after a refresh() yields the list of an
\* invocation that was started after that refresh().
FirstReadAfterRefreshIsFresh ==
    \A j \in 1..Len(reads) :
        ( /\ reads[j].refreshes > 0
          /\ (j = 1 \/ reads[j - 1].refreshes < reads[j].refreshes) )
        => /\ reads[j].fetch # 0
           /\ fetches[reads[j].fetch].refreshes >= reads[j].refreshes

\* C4: a getSessions() call made less than 500 ms after the last populate, with
\* no refresh() since that populate, returns the populated list (the empty one
\* included) and starts no list invocation.
ReadWithinTtlIsServedFromCache ==
    [][ ( /\ Len(reads') = Len(reads) + 1
          /\ populated.valid
          /\ populated.refreshes = refreshes
          /\ now - populated.at < SESSION_CACHE_TTL_MS )
        => ( /\ reads'[Len(reads')].kind = "cache"
             /\ reads'[Len(reads')].resolved
             /\ reads'[Len(reads')].list = populated.list
             /\ fetches' = fetches ) ]_vars

\* C4 witness: a call within the window was served the empty list from the cache.
WitnessEmptyListServedFromCache ==
    /\ Len(reads) > 0
    /\ reads[Len(reads)].kind = "cache"
    /\ reads[Len(reads)].list = <<>>
    /\ populated.valid
    /\ populated.list = <<>>
    /\ populated.refreshes = reads[Len(reads)].refreshes
    /\ now - populated.at < SESSION_CACHE_TTL_MS

\* C5: two getSessions() calls that were both issued while one and the same
\* list invocation was unresolved resolve to the same list.
ConcurrentReadsSeeSameList ==
    \A i, j \in 1..Len(reads) :
        ( /\ reads[i].resolved
          /\ reads[j].resolved
          /\ reads[i].pending \cap reads[j].pending # {} )
        => reads[i].list = reads[j].list

(***************************************************************************)
(* Claims about the naming and grouping functions, checked under FnSpec    *)
(***************************************************************************)

\* C8: whatever the lengths of prefix and suffix (empty ones included),
\* buildSessionName returns at most SESSION_NAME_MAX characters.
BuildSessionNameLengthBounded ==
    (call.op = "buildSessionName" /\ call.done) => Len(call.result) <= SESSION_NAME_MAX

\* C8 witness: a prefix and a suffix both longer than the maximum were cut to
\* exactly the maximum.
WitnessLongPrefixAndSuffixCut ==
    /\ call.op = "buildSessionName" /\ call.done
    /\ Len(call.prefix) > SESSION_NAME_MAX
    /\ Len(call.suffix) > SESSION_NAME_MAX
    /\ Len(call.result) = SESSION_NAME_MAX

\* C9: sanitizeSessionName is idempotent, keeps the length of its input and
\* returns only characters of [A-Za-z0-9-].
SanitizeIdempotentSameLength ==
    (call.op = "sanitizeSessionName" /\ call.done) =>
        /\ sanitizeSessionName(call.result) = call.result
        /\ Len(call.result) = Len(call.value)
        /\ \A i \in 1..Len(call.result) :
              call.result[i] \in Lower \cup Upper \cup Digits \cup {"-"}

\* C9 witness: a text with an underscore and a quote was sanitized.
WitnessSanitizeReplaced ==
    /\ call.op = "sanitizeSessionName" /\ call.done
    /\ \E i, j \in 1..Len(call.value) :
          /\ call.value[i] = "_" /\ call.result[i] = "-"
          /\ call.value[j] = "'" /\ call.result[j] = "-"

\* The known groups g for which lower(session) starts with g + "-".
MatchingGroups ==
    {g \in Range(call.knownGroups) :
        StartsWith(ToLowerCase(call.session), g \o <<"-">>)}

\* C10: when some known group g has lower(s) starting with g + "-",
\* getSessionGroupName returns the longest such g.
LongestKnownGroupWins ==
    (call.op = "getSessionGroupName" /\ call.done /\ MatchingGroups # {}) =>
        /\ call.result \in MatchingGroups
        /\ \A g \in MatchingGroups : Len(g) <= Len(call.result)

\* C10 witness: two known groups prefix the session and the longer was returned.
WitnessTwoGroupsMatch ==
    /\ call.op = "getSessionGroupName" /\ call.done
    /\ Cardinality(MatchingGroups) >= 2
    /\ call.result = CodexReview

(***************************************************************************)
(* Claims about getNextSessionName, checked under CommandSpec              *)
(***************************************************************************)

\* C6: getNextSessionName(p) returns a name that the listing S does not hold, and
\* its number is the smallest n >= 1 whose name for (p, n) is not in S.
NextNameUnusedAndSmallest ==
    call.op = "getNextSessionName" =>
        LET S == Range(call.sessions) IN
        /\ call.result \notin S
        /\ \E n \in 1..(Len(call.sessions) + 1) :
              /\ call.result = buildNumberedSessionName(call.prefix, DecimalText(n))
              /\ \A k \in 1..(n - 1) :
                    buildNumberedSessionName(call.prefix, DecimalText(k)) \in S

\* C7: a numbered name ends with '-' and the whole decimal text of its number,
\* after a leading part of the sanitized prefix; and when the prefix had to be
\* cut, the name is still none of the listed names.
TruncationKeepsNumberAndUniqueness ==
    call.op = "getNextSessionName" =>
        LET text == DecimalText(call.number)
            kept == Len(call.result) - Len(text) - 1
        IN /\ kept >= 1
           /\ SubSeq(call.result, kept + 2, Len(call.result)) = text
           /\ call.result[kept + 1] = "-"
           /\ StartsWith(SafePrefix(call.prefix), SubSeq(call.result, 1, kept))
           /\ (Len(SafePrefix(call.prefix)) + 1 + Len(text) > SESSION_NAME_MAX
                  => call.result \notin Range(call.sessions))

(***************************************************************************)
(* Claims about the listing parsers, checked under FnSpec                  *)
(***************************************************************************)

\* The positions of a text where a line starts.
LineStartsOf(out) == {i \in 1..Len(out) : i = 1 \/ out[i - 1] = "\n"}

\* The position where the line that starts at p ends (p - 1 for an empty line).
LineEnd(out, p) ==
    CHOOSE e \in (p - 1)..Len(out) :
        /\ \A j \in p..e : out[j] # "\n"
        /\ e = Len(out) \/ out[e + 1] = "\n"

\* The k-th smallest position of a set of positions.
KthOf(P, k) == CHOOSE p \in P : Cardinality({q \in P : q < p}) = k - 1

\* The starts of the lines of the tmux output that have a character before
\* their first ':'.
NamedLineStarts ==
    {p \in LineStartsOf(call.out) : call.out[p] \notin {"\n", ":"}}

\* The text of the line at p before its first ':'.
TmuxNameAt(p) ==
    LET e == CHOOSE e \in p..Len(call.out) :
                 /\ \A j \in p..e : call.out[j] \notin {"\n", ":"}
                 /\ e = Len(call.out) \/ call.out[e + 1] \in {"\n", ":"}
    IN SubSeq(call.out, p, e)

\* C11: parseTmuxSessions returns, in input order, one entry for every line that
\* has text before its first ':', that text being the entry; empty lines and
\* lines that start with ':' give no entry, and the empty output gives none.
ParseTmuxOneNamePerLine ==
    (call.op = "parseTmuxSessions" /\ call.done) =>
        /\ Len(call.names) = Cardinality(NamedLineStarts)
        /\ \A k \in 1..Len(call.names) :
              call.names[k] = TmuxNameAt(KthOf(NamedLineStarts, k))
        /\ call.out = <<>> => call.names = <<>>

\* C11 witness: an output with an empty line and a line that starts with ':'
\* between two named lines was parsed to two names.
WitnessTmuxLinesDropped ==
    /\ call.op = "parseTmuxSessions" /\ call.done
    /\ Len(call.names) = 2
    /\ \E i \in 2..Len(call.out) : call.out[i - 1] = "\n" /\ call.out[i] = "\n"
    /\ \E i \in 2..Len(call.out) : call.out[i - 1] = "\n" /\ call.out[i] = ":"

Blank == {" ", "\t"}

\* The pairs <<d, n>> for which the line at p is, once trimmed, digits up to
\* position d, a dot, a name without white space up to position n, white space,
\* and more text.
ScreenForm(out, p) ==
    LET e == LineEnd(out, p) IN
    {dn \in (p..e) \X (p..e) :
        /\ dn[1] + 2 <= dn[2]
        /\ dn[2] + 2 <= e
        /\ out[dn[1] + 1] = "."
        /\ out[dn[2] + 1] \in Blank
        /\ \A j \in (dn[1] + 2)..dn[2] : out[j] \notin Blank
        /\ \E s \in p..dn[1] :
              /\ \A j \in p..(s - 1) : out[j] \in Blank
              /\ \A j \in s..dn[1] : out[j] \in Digits
        /\ \E q \in (dn[2] + 2)..e : out[q] \notin Blank}

ScreenFormStarts == {p \in LineStartsOf(call.out) : ScreenForm(call.out, p) # {}}

ScreenNameAt(p) ==
    LET dn == CHOOSE dn \in ScreenForm(call.out, p) : TRUE
    IN SubSeq(call.out, dn[1] + 2, dn[2])

\* "No Sockets found" occurs in the output, in any letter case.
NamesNoSockets ==
    \E i \in 0..(Len(call.out) - Len(NoSocketsFound)) :
        \A k \in 1..Len(NoSocketsFound) :
            LowerChar(call.out[i + k]) = LowerChar(NoSocketsFound[k])

\* C12: parseScreenSessions returns nothing when the output names no sockets (in
\* any letter case); otherwise it returns, in input order, the name of every
\* line of the form <digits>.<name><white space>..., and nothing for other lines.
ParseScreenAsSpecified ==
    (call.op = "parseScreenSessions" /\ call.done) =>
        IF NamesNoSockets THEN call.names = <<>>
        ELSE /\ Len(call.names) = Cardinality(ScreenFormStarts)
             /\ \A k \in 1..Len(call.names) :
                   call.names[k] = ScreenNameAt(KthOf(ScreenFormStarts, k))

\* C12 witness: two names were taken from an output that also has a line of
\* another form.
WitnessScreenTwoNames ==
    /\ call.op = "parseScreenSessions" /\ call.done
    /\ Len(call.names) = 2
    /\ \E p \in LineStartsOf(call.out) :
          p <= Len(call.out) /\ call.out[p] # "\n" /\ ScreenForm(call.out, p) = {}

(***************************************************************************)
(* Claims about the command lines, checked under FnSpec                    *)
(***************************************************************************)

\* The word that follows the first occurrence of a flag.
ArgAfter(argv, flag) ==
    LET i == CHOOSE i \in 1..Len(argv) : argv[i] = flag /\ \A j \in 1..(i - 1) : argv[j] # flag
    IN argv[i + 1]

CreateFlag == IF call.kind = "screen" THEN <<"-","d","m","S">> ELSE <<"-","s">>
AttachFlag == IF call.kind = "screen" THEN <<"-","r">> ELSE <<"-","t">>
DeleteFlag == IF call.kind = "screen" THEN <<"-","S">> ELSE <<"-","t">>

\* C13: for both backends and every name (those over [A-Za-z0-9-] among them),
\* the session argument the shell reads from attachSessionCommand(name) is the
\* name createSession(name) passed to the backend, which is the name itself, and
\* deleteSession(name) passes the same argument.
EscapedNameRoundTrips ==
    (call.op = "sessionCommands" /\ call.done) =>
        /\ ArgAfter(call.create, CreateFlag) = call.session
        /\ ArgAfter(call.attach, AttachFlag) = ArgAfter(call.create, CreateFlag)
        /\ ArgAfter(call.delete, DeleteFlag) = ArgAfter(call.attach, AttachFlag)

\* C13 witness: a three-character name over [A-Za-z0-9-] went through the screen
\* command lines of a tool session.
WitnessNameInScreenCommands ==
    /\ call.op = "sessionCommands" /\ call.done
    /\ call.kind = "screen"
    /\ call.session = <<"Z", "-", "7">>
    /\ call.initialCommand # <<>>
    /\ ArgAfter(call.attach, AttachFlag) = call.session

(***************************************************************************)
(* Claims about listSessions under the cache, checked under Spec           *)
(***************************************************************************)

\* The list invocations whose command has run.
Settled == {f \in 1..Len(fetches) : fetches[f].state # "spawned"}

\* No getSessions() call was rejected and no listing error was shown.
NoListingErrorShown ==
    /\ \A r \in 1..Len(reads) : ~reads[r].rejected
    /\ \A m \in 1..Len(messages) : messages[m].text # "Unable to list terminals"

\* C14 as stated: listSessions never rejects and, for either backend, gives the
\* empty list when the list command is missing, exits non-zero or prints
\* nothing; getSessions() never rejects and no listing error is shown.
ListingFailureGivesEmptyList ==
    /\ \A f \in Settled :
          /\ ~fetches[f].rejected
          /\ fetches[f].outcome # "ok" => fetches[f].list = <<>>
          /\ fetches[f].held = {} => fetches[f].list = <<>>
    /\ NoListingErrorShown

\* C14 as amended: listSessions never rejects; it gives the empty list when the
\* list command is missing or prints no session, and for tmux also when the
\* command exits non-zero; for screen the exit status is not looked at and the
\* names in the output are returned; no listing error is shown.
ListingNeverRejects ==
    /\ \A f \in Settled :
          /\ ~fetches[f].rejected
          /\ fetches[f].outcome = "missing" => fetches[f].list = <<>>
          /\ fetches[f].held = {} => fetches[f].list = <<>>
          /\ (backendKind = "tmux" /\ fetches[f].outcome = "failed")
                => fetches[f].list = <<>>
          /\ (backendKind = "screen" /\ fetches[f].outcome = "failed")
                => fetches[f].list = Listing(fetches[f].held)
    /\ NoListingErrorShown

\* C14 witness: 'tmux ls' failed while a session existed, and the getSessions()
\* call that awaited it received the empty list.
WitnessFailedListingIsEmpty ==
    \E r \in 1..Len(reads) :
        /\ reads[r].resolved /\ reads[r].kind = "started" /\ reads[r].list = <<>>
        /\ backendKind = "tmux"
        /\ fetches[reads[r].fetch].outcome = "failed"
        /\ fetches[reads[r].fetch].held # {}

(***************************************************************************)
(* Claims about the command handlers, checked under HandlerSpec            *)
(***************************************************************************)

\* The messages shown for command c.
MessagesOf(c) == {m \in 1..Len(messages) : messages[m].command = c}

\* The finished commands of a kind whose backend command failed.
Failed(kind) ==
    {c \in 1..Len(commands) :
        commands[c].kind = kind /\ commands[c].pc = "done" /\ ~commands[c].ok}

\* C15: when the creation command fails, createSession throws, the handler shows
\* exactly one message, which names the attempted session, the creation command
\* is run once only, and createSession does not add the name to knownSessions.
CreationFailureReportedOnce ==
    \A c \in Failed("create") :
        /\ commands[c].threw
        /\ Cardinality(MessagesOf(c)) = 1
        /\ \A m \in MessagesOf(c) :
              /\ messages[m].text = "Failed to create terminal"
              /\ messages[m].session = commands[c].session
        /\ commands[c].attempts = 1
        /\ commands[c].knownAfter => commands[c].knownBefore

\* C15 witness: a creation failed, one message was shown and the name is not
\* among the known sessions.
WitnessCreationFailed ==
    \E c \in Failed("create") :
        /\ Cardinality(MessagesOf(c)) = 1
        /\ commands[c].session \notin knownSessions
        /\ commands[c].session \notin backend

\* C16: when the kill or quit command fails, deleteSession throws, the delete
\* handler shows one message, which names the session, and the command is run
\* once only.
DeletionFailureReportedOnce ==
    \A c \in Failed("delete") :
        /\ commands[c].threw
        /\ Cardinality(MessagesOf(c)) = 1
        /\ \A m \in MessagesOf(c) :
              /\ messages[m].text = "Failed to delete terminal"
              /\ messages[m].session = commands[c].session
        /\ commands[c].attempts = 1

\* C16 witness: the deletion of a session that the multiplexer still holds
\* failed and was reported.
WitnessDeletionFailed ==
    \E c \in Failed("delete") :
        /\ Cardinality(MessagesOf(c)) = 1
        /\ commands[c].session \in backend

\* Command c returns in this step.
Completes(c) ==
    /\ c \in 1..Len(commands')
    /\ commands'[c].pc = "done"
    /\ c > Len(commands) \/ commands[c].pc # "done"

\* C17: a create or delete handler calls provider.refresh() if and only if the
\* mutation returned without throwing; when it threw, sessionsCache,
\* groupedCache and sessionsFetch are left as they were.
RefreshIffMutationReturned ==
    [][ /\ \A c \in 1..Len(commands') :
              Completes(c) =>
                  IF commands'[c].threw
                  THEN /\ refreshes' = refreshes
                       /\ UNCHANGED <<sessionsCache, groupedCache, sessionsFetch>>
                  ELSE /\ refreshes' = refreshes + 1
                       /\ sessionsCache' = Undefined
                       /\ groupedCache' = Undefined
                       /\ sessionsFetch' = 0
        /\ (\A c \in 1..Len(commands') : ~Completes(c)) => refreshes' = refreshes
      ]_vars

\* C17 witness: a mutation threw while the cache held a list, and the cache still
\* holds it.
WitnessFailedMutationKeepsCache ==
    \E c \in 1..Len(commands) :
        /\ commands[c].pc = "done" /\ commands[c].threw
        /\ commands[c].cacheDefined
        /\ sessionsCache.defined

(***************************************************************************)
(* Claims about createSession, checked under FnSpec                        *)
(***************************************************************************)

\* C18: once the creation command has succeeded, createSession returns normally
\* however the configuration commands end: for tmux the batched set-option
\* command is run first and the per-option commands, one for each option, are
\* run exactly when it failed; for screen both scrollback commands are run.
CosmeticFailuresSwallowed ==
    (call.op = "createSession" /\ call.done /\ call.execs[1].ok) =>
        /\ ~call.threw
        /\ call.known = {call.session}
        /\ call.kind = "tmux" =>
              /\ call.execs[2].command = "tmux set-option batch"
              /\ IF call.execs[2].ok THEN Len(call.execs) = 2
                 ELSE /\ Len(call.execs) = 2 + Len(TmuxOptions)
                      /\ \A i \in 1..Len(TmuxOptions) :
                            /\ call.execs[2 + i].command = "tmux set-option"
                            /\ call.execs[2 + i].option = TmuxOptions[i]
        /\ call.kind = "screen" =>
              /\ Len(call.execs) = 1 + Len(ScreenScrollback)
              /\ \A i \in 1..Len(ScreenScrollback) :
                    /\ call.execs[1 + i].command = "screen -X"
                    /\ call.execs[1 + i].option = ScreenScrollback[i]

\* C18 witness: the batched command and some per-option commands failed, every
\* option was tried and createSession returned.
WitnessPerOptionFallback ==
    /\ call.op = "createSession" /\ call.done /\ call.kind = "tmux"
    /\ ~call.threw
    /\ Len(call.execs) = 2 + Len(TmuxOptions)
    /\ ~call.execs[2].ok
    /\ ~call.execs[3].ok
    /\ call.execs[4].ok

(***************************************************************************)
(* Claims about the listings of the commands, checked under CommandSpec    *)
(***************************************************************************)

\* C19: every list invocation is started by getSessions(), so none is started
\* while sessionsFetch holds a pending fetch.
AllListingsThroughCache ==
    \A f \in 1..Len(fetches) :
        /\ fetches[f].by = "getSessions"
        /\ fetches[f].during = 0

(***************************************************************************)
(* Claims about the default names, checked under DefaultSpec               *)
(***************************************************************************)

DefaultName(n) == Terminal \o <<"-">> \o DecimalText(n)

\* The smallest n >= 1 for which the multiplexer holds no terminal-n.
SmallestMissing(held) ==
    CHOOSE n \in 1..(Cardinality(held) + 1) :
        /\ DefaultName(n) \notin held
        /\ \A k \in 1..(n - 1) : DefaultName(k) \in held

\* C20: from a multiplexer without sessions, with the commands run one after
\* another and the list command succeeding, a creation without suffix in the
\* default group is given terminal-n for the smallest n not in use; so the k-th
\* of k creations that all worked is given terminal-k.
DefaultNamesCountUp ==
    /\ (call.op = "getNextSessionName" /\ call.listed) =>
           call.result = DefaultName(SmallestMissing(call.held))
    /\ \A c \in 1..Len(commands) :
           (\A b \in 1..c : /\ commands[b].kind = "create"
                            /\ commands[b].pc = "done"
                            /\ commands[b].listed
                            /\ ~commands[b].threw)
           => commands[c].session = DefaultName(c)

\* C20 witness: terminal-1 and terminal-2 were created, terminal-1 was deleted,
\* and the next creation was given terminal-1 again.
WitnessDeletedNumberReused ==
    /\ call.op = "getNextSessionName"
    /\ call.command = 4
    /\ commands[1].session = DefaultName(1) /\ ~commands[1].threw
    /\ commands[2].session = DefaultName(2) /\ ~commands[2].threw
    /\ commands[3].kind = "delete" /\ ~commands[3].threw
    /\ call.held = {DefaultName(2)}
    /\ call.result = DefaultName(1)
    /\ ~commands[4].threw

(***************************************************************************)
(* Names given to the sessions created with a suffix.                      *)
(***************************************************************************)
\* The text with every non-alphanumeric character removed.
AlnumOnly(text) ==
    SelectSeq(text, LAMBDA ch : ch \in Lower \cup Upper \cup Digits)

DOCUMENTED_SUFFIX_MAX == 8

\* C21: a session created with an entered suffix is named <group>-<suffix'>,
\* suffix' being the entered suffix without its non-alphanumeric characters,
\* cut to eight characters.
SuffixedNameAsDocumented ==
    \A c \in 1..Len(commands) :
        (/\ commands[c].kind = "create"
         /\ commands[c].pc = "done"
         /\ commands[c].suffix # <<>>)
        => commands[c].session =
              commands[c].prefix \o <<"-">>
                \o Slice(AlnumOnly(commands[c].suffix), DOCUMENTED_SUFFIX_MAX)

(***************************************************************************)
(* Claims about the groups of the tree, checked under FnSpec               *)
(***************************************************************************)
\* The group keys that getSessionGroupName gave to the sessions of the call.
SessionKeys == {call.grouped[i].key : i \in 1..Len(call.grouped)}

\* C22: the group items built for the tree have pairwise distinct keys, also
\* when compared without regard to letter case; getSessionGroupName never
\* returns "favorites" and no tool group is keyed "favorites".
GroupKeysDistinct ==
    (call.op = "buildGroupItems" /\ call.done) =>
        /\ \A i, j \in 1..Len(call.items) :
              ToLowerCase(call.items[i].groupName) = ToLowerCase(call.items[j].groupName)
                  => i = j
        /\ FAVORITES_GROUP \notin SessionKeys
        /\ \A i \in 1..Len(call.toolGroups) : call.toolGroups[i].name # FAVORITES_GROUP
        /\ Cardinality({i \in 1..Len(call.items) :
                            call.items[i].groupName = FAVORITES_GROUP}) = 1

\* C22 witness: "favorites" is configured as a tool, a session named
\* Favorites-x is listed, and a session of no configured group adds a key.
WitnessFavoritesKeptApart ==
    /\ call.op = "buildGroupItems" /\ call.done
    /\ FAVORITES_GROUP \in Range(call.tools)
    /\ <<"F","a","v","o","r","i","t","e","s","-","x">> \in Range(call.sessions)
    /\ <<"m","y">> \in SessionKeys
    /\ Len(call.items) = 3

(***************************************************************************)
(* Claims about the order of the fetches, checked under Spec               *)
(***************************************************************************)
\* The list invocations that getSessions() has started.
CacheFetches == {f \in 1..Len(fetches) : fetches[f].by = "getSessions"}

\* C27: the cached list is never overwritten by the result of a fetch started
\* earlier than the fetch whose result the cache holds, and once every fetch
\* has resolved the cache holds the result of the most recently started one.
CacheNeverGoesBackToEarlierFetch ==
    /\ [][(cacheFrom # 0 /\ cacheFrom' # 0) => cacheFrom' >= cacheFrom]_vars
    /\ []((/\ CacheFetches # {}
           /\ \A f \in CacheFetches : fetches[f].state = "resolved"
           /\ sessionsCache.defined)
          => \A f \in CacheFetches : f <= cacheFrom)

(***************************************************************************)
(* Claims about the tree, checked under EarlierTreeSpec and TreeSpec       *)
(***************************************************************************)
\* getChildren() call c was issued more than the time-to-live after the last
\* populate of the cache.
IssuedAfterTtl(c) ==
    /\ children[c].populated.valid
    /\ children[c].at - children[c].populated.at > SESSION_CACHE_TTL_MS

\* C23: in src/src/extension.ts a getChildren() call issued more than 500 ms
\* after the last populate awaits a listing that runs after the call was
\* issued and returns the groups computed from the list of that listing.
ChildrenRelistAfterTtl ==
    \A c \in 1..Len(children) :
        (children[c].pc = "done" /\ IssuedAfterTtl(c)) =>
            /\ children[c].fetch # 0
            /\ children[c].result = GroupedEarlier(fetches[children[c].fetch].list)

\* C28: whenever groupedCache is defined, sessionsCache is defined and
\* groupedCache is the grouping of the filtered sessionsCache.
GroupedCacheMatchesSessionsCache ==
    groupedCache.defined =>
        /\ sessionsCache.defined
        /\ groupedCache = Grouped(sessionsCache.list)

\* C28 witness: after the time-to-live a getChildren() call has listed anew,
\* the list differs from the one cached before, and groupedCache holds the
\* groups of the new list.
WitnessRegroupedAfterTtl ==
    /\ groupedCache.defined
    /\ groupedCache.list # <<>>
    /\ \E c \in 1..Len(children) :
          /\ children[c].pc = "done"
          /\ IssuedAfterTtl(c)
          /\ children[c].hadGrouped
          /\ children[c].populated.list = <<>>
          /\ children[c].result = groupedCache

(***************************************************************************)
(* Claims about buildSessionName and the parsers, checked under FnSpec     *)
(***************************************************************************)
\* The first n characters of a text, or all of it when it has fewer.
FirstChars(text, n) == [i \in 1..(IF Len(text) < n THEN Len(text) ELSE n) |-> text[i]]

\* C24: with p the sanitized prefix ('terminal' when it is empty) and x the
\* sanitized suffix, buildSessionName returns the first 22 characters of p, a
\* hyphen and the first character of x exactly when p has 23 characters or
\* more, and otherwise p, a hyphen and the first 24 - len(p) - 1 characters
\* of x.
BuildSessionNameTwoCases ==
    (call.op = "buildSessionName" /\ call.done) =>
        LET p == SafePrefix(call.prefix)
            x == sanitizeSessionName(call.suffix)
            long == FirstChars(p, 22) \o <<"-">> \o FirstChars(x, 1)
            short == p \o <<"-">> \o FirstChars(x, 24 - Len(p) - 1)
        IN /\ Len(p) >= 23 => call.result = long
           /\ Len(p) < 23 => call.result = short

\* C24 witness: a prefix of exactly 23 characters was cut to 22 and the suffix
\* to its first character; the prefix and the suffix both held characters
\* that were replaced.
WitnessPrefixOfTwentyThree ==
    /\ call.op = "buildSessionName" /\ call.done
    /\ Len(call.prefix) = 23
    /\ Len(call.suffix) >= 2
    /\ Len(call.result) = 24
    /\ call.prefix[1] = "_"
    /\ call.result[1] = "-"

\* The group names of the tool commands that getToolGroups does not skip as
\* empty or as colliding with 'terminal' or the favorites key.
ToolNames ==
    LET toolCommands == getToolsConfig(call.bundledTools, call.tools) IN
    {getToolPrefix(Trim(toolCommands[i])) : i \in 1..Len(toolCommands)}
        \ {Terminal, FAVORITES_GROUP}

\* C25: getKnownGroupNames returns a list without repetitions of lower-case
\* names, which holds "terminal" and the group name of every tool command not
\* skipped and nothing else, does not hold "favorites", and is ordered by
\* non-increasing length.
KnownGroupNamesWellFormed ==
    (call.op \in {"getSessionGroupName", "buildGroupItems"} /\ call.done) =>
        LET known == call.knownGroups IN
        /\ \A i, j \in 1..Len(known) : known[i] = known[j] => i = j
        /\ \A i \in 1..Len(known) : known[i] = ToLowerCase(known[i])
        /\ Range(known) = {Terminal} \cup ToolNames
        /\ FAVORITES_GROUP \notin Range(known)
        /\ \A i \in 1..(Len(known) - 1) : Len(known[i]) >= Len(known[i + 1])

\* C25 witness: with a bundled tool, 'favorites' and a tool written in two
\* ways configured, three names of decreasing length were returned.
WitnessKnownGroupsSkipAndSort ==
    /\ call.op = "getSessionGroupName" /\ call.done
    /\ call.bundledTools # <<>>
    /\ FAVORITES_GROUP \in Range(call.tools)
    /\ call.knownGroups = <<CodexReview, Terminal, Codex>>

\* The starts of the lines of the tmux output that have the ':' separator
\* and some text before it.
SeparatedLineStarts ==
    {p \in NamedLineStarts :
        \E j \in p..LineEnd(call.out, p) : call.out[j] = ":"}

\* C26: a line that has not the form the multiplexer prints (tmux: no ':'
\* separator; screen: not <digits>.<name><white space>) adds no name to the
\* result of the parser.
MalformedLinesGiveNoName ==
    /\ (call.op = "parseTmuxSessions" /\ call.done) =>
           Len(call.names) = Cardinality(SeparatedLineStarts)
    /\ (call.op = "parseScreenSessions" /\ call.done) =>
           Len(call.names) <= Cardinality(ScreenFormStarts)

(***************************************************************************)
(* Claims about the groups of created sessions, checked under CommandSpec  *)
(***************************************************************************)
\* The tools configured while the commands run: the one whose group the
\* tool command of CommandPrefixes starts sessions for.
CommandTools == <<LongTool>>

\* C29: every session created for a group (the default group or the group of
\* a configured tool), with or without a suffix, is classified into that group
\* by getSessionGroupName under the known groups.
CreatedSessionKeepsItsGroup ==
    \A c \in 1..Len(commands) :
        (/\ commands[c].kind = "create"
         /\ commands[c].pc = "done"
         /\ ~commands[c].threw) =>
            getSessionGroupName(commands[c].session,
                                getKnownGroupNames(<<>>, CommandTools))
                = commands[c].prefix

\* C30: when creations of the default group with an empty suffix run
\* concurrently, the name getNextSessionName returns after a successful
\* listing is absent from the multiplexer when createSession is called with it.
NameStillFreeAtCreation ==
    (/\ call.op = "getNextSessionName"
     /\ call.prefix = Terminal
     /\ call.listed)
    => call.result \notin call.held

====
